---- MODULE Spec2Model ----
(***************************************************************************)
(* A model of mpm (my_project_manager): the config store                   *)
(* (pkg/config/config.go), the command surface (cmd/cmd.go) and the        *)
(* interactive list/form/action controller (pkg/ui).                       *)
(*                                                                         *)
(* Strings are sequences of units.  A unit is a one-character TLA+ string  *)
(* standing for that byte, or one of two special units: XFF, a lone byte   *)
(* 0xFF (never valid UTF-8; argv on Unix may carry it), and RuneError, the *)
(* code point U+FFFD.                                                      *)
(***************************************************************************)
EXTENDS Integers, Sequences, FiniteSets, TLC

\* ------------------------------------------------------------------------
\* Bounds of the model
\* ------------------------------------------------------------------------
MaxProjects == 3

\* ------------------------------------------------------------------------
\* Strings
\* ------------------------------------------------------------------------
XFF == "xFF"
RuneError == "uFFFD"

\* The units in increasing byte order (Go compares strings byte-wise; the
\* first byte of U+FFFD is 0xEF, below 0xFF and above all ASCII).
ByteOrder ==
  << " ", "\"", ".", "/", "A", "B", "C", "D", "E", "F", "G", "H", "I", "J",
     "K", "L", "M", "N", "O", "P", "Q", "R", "S", "T", "U", "V", "W", "X",
     "Y", "Z", "\\", "_", "a", "b", "c", "d", "e", "f", "g", "h", "i", "j",
     "k", "l", "m", "n", "o", "p", "q", "r", "s", "t", "u", "v", "w", "x",
     "y", "z", "~", RuneError, XFF >>

Rank(u) == CHOOSE i \in DOMAIN ByteOrder : ByteOrder[i] = u

\* Go's s < t on strings.
RECURSIVE StrLess(_, _)
StrLess(s, t) ==
  IF t = <<>> THEN FALSE
  ELSE IF s = <<>> THEN TRUE
  ELSE IF s[1] = t[1] THEN StrLess(Tail(s), Tail(t))
  ELSE Rank(s[1]) < Rank(t[1])

HasPrefix(s, u) == Len(s) > 0 /\ s[1] = u

\* ------------------------------------------------------------------------
\* encoding/json as used by SaveConfig and LoadConfig
\* ------------------------------------------------------------------------
\* One unit of a Go string as json.Marshal writes it inside a string
\* literal: quote and backslash are escaped, an invalid UTF-8 byte is
\* written as the six-character escape for U+FFFD, everything else is written as is.
EncUnit(u) ==
  CASE u = "\"" -> "\\\""
    [] u = "\\" -> "\\\\"
    [] u = XFF -> "\\ufffd"
    [] OTHER -> u

\* One token of a JSON string literal as json.Unmarshal reads it.
DecUnit(t) ==
  CASE t = "\\\"" -> "\""
    [] t = "\\\\" -> "\\"
    [] t = "\\ufffd" -> RuneError
    [] t = XFF -> RuneError
    [] OTHER -> t

EncString(s) == [i \in DOMAIN s |-> EncUnit(s[i])]
DecString(l) == [i \in DOMAIN l |-> DecUnit(l[i])]

\* A Config is modelled by its Projects sequence (a nil and an empty slice
\* are the same sequence).
Project(name, path, category) ==
  [Name |-> name, Path |-> path, Category |-> category]

Marshal(config) ==
  [i \in DOMAIN config |->
     [name |-> EncString(config[i].Name),
      path |-> EncString(config[i].Path),
      category |-> EncString(config[i].Category)]]

Unmarshal(data) ==
  [i \in DOMAIN data |->
     Project(DecString(data[i].name), DecString(data[i].path),
             DecString(data[i].category))]

\* ------------------------------------------------------------------------
\* path/filepath on Unix
\* ------------------------------------------------------------------------
Home == << "/", "h" >>
Cwd == << "/", "w" >>

\* The components of a path: the runs between separators (possibly empty).
RECURSIVE SplitPath(_, _)
SplitPath(p, cur) ==
  IF p = <<>> THEN << cur >>
  ELSE IF p[1] = "/" THEN << cur >> \o SplitPath(Tail(p), <<>>)
  ELSE SplitPath(Tail(p), Append(cur, p[1]))

Front(s) == SubSeq(s, 1, Len(s) - 1)

\* filepath.Clean's component pass: out is the stack of kept components.
RECURSIVE CleanComps(_, _, _)
CleanComps(comps, out, rooted) ==
  IF comps = <<>> THEN out
  ELSE LET c == comps[1]
           rest == Tail(comps)
       IN IF c = <<>> \/ c = << "." >> THEN CleanComps(rest, out, rooted)
          ELSE IF c = << ".", "." >>
               THEN IF out # <<>> /\ out[Len(out)] # << ".", "." >>
                    THEN CleanComps(rest, Front(out), rooted)
                    ELSE IF rooted THEN CleanComps(rest, out, rooted)
                    ELSE CleanComps(rest, Append(out, c), rooted)
          ELSE CleanComps(rest, Append(out, c), rooted)

RECURSIVE JoinComps(_)
JoinComps(comps) ==
  IF comps = <<>> THEN <<>>
  ELSE IF Len(comps) = 1 THEN comps[1]
  ELSE comps[1] \o << "/" >> \o JoinComps(Tail(comps))

IsAbs(p) == HasPrefix(p, "/")

Clean(p) ==
  IF p = <<>> THEN << "." >>
  ELSE LET rooted == IsAbs(p)
           body == JoinComps(CleanComps(SplitPath(p, <<>>), <<>>, rooted))
       IN IF rooted THEN << "/" >> \o body
          ELSE IF body = <<>> THEN << "." >> ELSE body

\* filepath.Join of two elements.
Join(a, b) ==
  IF a = <<>> /\ b = <<>> THEN <<>>
  ELSE IF a = <<>> THEN Clean(b)
  ELSE Clean(a \o << "/" >> \o b)

\* Abs without the working directory: a relative path stays relative.
AbsCleanOnly(p) == Clean(p)

\* filepath.Abs with the working directory Cwd.
Abs(p) == IF IsAbs(p) THEN Clean(p) ELSE Join(Cwd, p)

\* ------------------------------------------------------------------------
\* State
\* ------------------------------------------------------------------------
VARIABLES
  file,     \* the config file: absent, unparsable, or a JSON document
  perm,     \* what the process may do with the file: subset of {"r", "w"}
  out,      \* what the last operation printed
  call,     \* the last operation or key event and its arguments
  m,        \* the ListModel of the interactive session
  lines,    \* the number of lines of the rendered ActionView content
  crashed,  \* View has panicked: the session is over
  scans,    \* ScanProjectHealth runs since the ActionView was opened
  tmp       \* the file mpm_cd_command of the temporary directory

vars == << file, perm, out, call, m, lines, crashed, scans, tmp >>
ui == << m, lines, crashed, scans, tmp >>

\* ------------------------------------------------------------------------
\* pkg/config/config.go
\* ------------------------------------------------------------------------
EmptyConfig == <<>>

JsonFile(config) == [kind |-> "json", data |-> Marshal(config)]

\* LoadConfig going on to decode after a failed read.
LoadConfigIgnoringReadError(f, pm) ==
  IF f.kind = "json"
  THEN [config |-> Unmarshal(f.data), err |-> "none"]
  ELSE [config |-> EmptyConfig, err |-> "parse"]

LoadConfig(f, pm) ==
  IF f.kind = "absent" \/ "r" \notin pm
  THEN [config |-> EmptyConfig, err |-> "read"]
  ELSE IF f.kind = "garbage"
       THEN [config |-> EmptyConfig, err |-> "parse"]
       ELSE [config |-> Unmarshal(f.data), err |-> "none"]

LoadMsgs(ld) ==
  IF ld.err = "read" THEN << [msg |-> "Error reading config file"] >>
  ELSE IF ld.err = "parse" THEN << [msg |-> "Error parsing config file"] >>
  ELSE <<>>

\* SaveConfig that creates the file but never replaces an existing one.
SaveConfigCreateOnly(f, pm, config) ==
  IF "w" \in pm /\ f.kind = "absent"
  THEN [file |-> JsonFile(config), msgs |-> <<>>]
  ELSE [file |-> f, msgs |-> << [msg |-> "Error writing config file"] >>]

SaveConfig(f, pm, config) ==
  IF "w" \in pm
  THEN [file |-> JsonFile(config), msgs |-> <<>>]
  ELSE [file |-> f, msgs |-> << [msg |-> "Error writing config file"] >>]

\* Index of the first project called name, 0 when there is none.
FirstIndex(config, name) ==
  IF \E i \in DOMAIN config : config[i].Name = name
  THEN CHOOSE i \in DOMAIN config :
         /\ config[i].Name = name
         /\ \A j \in 1..(i - 1) : config[j].Name # name
  ELSE 0

ExpandTilde(path) ==
  IF HasPrefix(path, "~") THEN Join(Home, Tail(path)) ELSE path

\* Removal that drops everything from the match on.
RemoveAtTruncating(s, i) == SubSeq(s, 1, i - 1)

RemoveAt(s, i) == SubSeq(s, 1, i - 1) \o SubSeq(s, i + 1, Len(s))

\* AddProject without the search for an existing entry.
AddProjectAlwaysAppends(f, pm, name, path, category) ==
  LET ld == LoadConfig(f, pm)
      absPath == Abs(ExpandTilde(path))
      sv == SaveConfig(f, pm,
                       Append(ld.config, Project(name, absPath, category)))
  IN [file |-> sv.file, loaded |-> ld.config,
      out |-> LoadMsgs(ld) \o sv.msgs
              \o << [msg |-> "Added project", name |-> name,
                     path |-> absPath, category |-> category] >>]

AddProject(f, pm, name, path, category) ==
  LET ld == LoadConfig(f, pm)
      config == ld.config
      absPath == Abs(ExpandTilde(path))
      i == FirstIndex(config, name)
      entry == Project(name, absPath, category)
      newConfig == IF i # 0 THEN [config EXCEPT ![i] = entry]
                   ELSE Append(config, entry)
      sv == SaveConfig(f, pm, newConfig)
      done == [msg |-> IF i # 0 THEN "Updated project" ELSE "Added project",
               name |-> name, path |-> absPath, category |-> category]
  IN [file |-> sv.file, loaded |-> config,
      out |-> LoadMsgs(ld) \o sv.msgs \o << done >>]

\* RemoveProject that saves whether or not it found the name.
RemoveProjectAlwaysSaves(f, pm, name) ==
  LET ld == LoadConfig(f, pm)
      config == ld.config
      i == FirstIndex(config, name)
      sv == SaveConfig(f, pm, IF i # 0 THEN RemoveAt(config, i) ELSE config)
  IN [file |-> sv.file, loaded |-> config,
      out |-> LoadMsgs(ld) \o sv.msgs
              \o << [msg |-> IF i # 0 THEN "Removed project"
                              ELSE "Project not found", name |-> name] >>]

RemoveProject(f, pm, name) ==
  LET ld == LoadConfig(f, pm)
      config == ld.config
      i == FirstIndex(config, name)
      sv == SaveConfig(f, pm, RemoveAt(config, i))
  IN IF i # 0
     THEN [file |-> sv.file, loaded |-> config,
           out |-> LoadMsgs(ld) \o sv.msgs
                   \o << [msg |-> "Removed project", name |-> name] >>]
     ELSE [file |-> f, loaded |-> config,
           out |-> LoadMsgs(ld)
                   \o << [msg |-> "Project not found", name |-> name] >>]

\* config.GoToProject: the path of the first project called name, or "".
GoToProject(f, pm, name) ==
  LET ld == LoadConfig(f, pm)
      i == FirstIndex(ld.config, name)
  IN [path |-> IF i # 0 THEN ld.config[i].Path ELSE <<>>,
      loaded |-> ld.config, out |-> LoadMsgs(ld)]

\* cmd.GoToProject printing the name where the path belongs.
CmdGoToProjectPrintsName(f, pm, name) ==
  LET g == GoToProject(f, pm, name)
  IN [loaded |-> g.loaded,
      out |-> g.out \o
              IF g.path # <<>>
              THEN << [msg |-> "cd", path |-> name] >>
              ELSE << [msg |-> "Project not found", name |-> name] >>]

\* cmd.GoToProject: prints the directory change or the not-found message.
CmdGoToProject(f, pm, name) ==
  LET g == GoToProject(f, pm, name)
  IN [loaded |-> g.loaded,
      out |-> g.out \o
              IF g.path # <<>>
              THEN << [msg |-> "cd", path |-> g.path] >>
              ELSE << [msg |-> "Project not found", name |-> name] >>]

\* ------------------------------------------------------------------------
\* Inputs of the command surface
\* ------------------------------------------------------------------------
demo == << "d", "e", "m", "o" >>
Demo == << "D", "e", "m", "o" >>
work == << "w", "o", "r", "k" >>
tildeCodeDemo == << "~", "/", "c", "o", "d", "e", "/", "d", "e", "m", "o" >>
homeCodeDemo == Home \o << "/", "c", "o", "d", "e", "/", "d", "e", "m", "o" >>
relX == << "x" >>
cwdX == Cwd \o << "/", "x" >>

\* Names: two that differ in case only, one that is not valid UTF-8, and
\* the name the latter is persisted as.
Names == { demo, Demo, << XFF >>, << RuneError >> }

\* (path, category) arguments of add.
Targets ==
  { [path |-> tildeCodeDemo, category |-> work],
    [path |-> relX, category |-> <<>>] }

NoCall == [op |-> "none"]

\* No interactive session is running.
NoFile == [kind |-> "absent"]
NoModel == [Quitting |-> TRUE]

Init ==
  /\ file = JsonFile(EmptyConfig)
  /\ perm = {"r", "w"}
  /\ out = <<>>
  /\ call = NoCall
  /\ m = NoModel
  /\ lines = 0
  /\ crashed = FALSE
  /\ scans = 0
  /\ tmp = NoFile

\* ------------------------------------------------------------------------
\* Operations
\* ------------------------------------------------------------------------
Add(name, path, category) ==
  LET r == AddProject(file, perm, name, path, category)
  IN /\ \/ Len(r.loaded) < MaxProjects
        \/ FirstIndex(r.loaded, name) # 0
     /\ file' = r.file
     /\ out' = r.out
     /\ call' = [op |-> "add", name |-> name, path |-> path,
                 category |-> category]
     /\ UNCHANGED << perm, ui >>

Remove(name) ==
  LET r == RemoveProject(file, perm, name)
  IN /\ file' = r.file
     /\ out' = r.out
     /\ call' = [op |-> "remove", name |-> name]
     /\ UNCHANGED << perm, ui >>

Go(name) ==
  LET r == CmdGoToProject(file, perm, name)
  IN /\ out' = r.out
     /\ call' = [op |-> "go", name |-> name]
     /\ UNCHANGED << file, perm, ui >>

\* A bare LoadConfig call.
Load ==
  LET ld == LoadConfig(file, perm)
  IN /\ out' = LoadMsgs(ld)
     /\ call' = [op |-> "load", got |-> ld.config, err |-> ld.err]
     /\ UNCHANGED << file, perm, ui >>

\* A bare SaveConfig call.
Save(config) ==
  LET sv == SaveConfig(file, perm, config)
  IN /\ file' = sv.file
     /\ out' = sv.msgs
     /\ call' = [op |-> "save", config |-> config]
     /\ UNCHANGED << perm, ui >>

AddAny == \E n \in Names, t \in Targets : Add(n, t.path, t.category)
RemoveAny == \E n \in Names : Remove(n)
GoAny == \E n \in Names : Go(n)

Next == AddAny \/ RemoveAny \/ GoAny

\* The command surface over a working file system.
Spec == Init /\ [][Next]_vars

\* ------------------------------------------------------------------------
\* SaveConfig followed by LoadConfig, for arbitrary in-memory configs
\* ------------------------------------------------------------------------
MaxSaved == 2

SavedProjects ==
  { Project(n, homeCodeDemo, c) :
      n \in { demo, << "\"" >>, << RuneError >>, << XFF >> },
      c \in { <<>>, work } }

SavedConfigs ==
  UNION { [1..k -> SavedProjects] : k \in 0..MaxSaved }

SaveAny == \E c \in SavedConfigs : Save(c)

NextRoundTrip == SaveAny \/ Load

SpecRoundTrip == Init /\ [][NextRoundTrip]_vars

\* ------------------------------------------------------------------------
\* AddProject over path shapes
\* ------------------------------------------------------------------------
PathCases ==
  { <<>>,
    << "/" >>,
    << "~" >>,
    << "~", "/" >>,
    << "~", "a" >>,
    << "~", "/", "a" >>,
    << "~", "/", ".", ".", "/", "a" >>,
    << "~", "/", "a", "/", "/", "b", "/" >>,
    << "a" >>,
    << ".", "/", "a" >>,
    << ".", ".", "/", "a" >>,
    << ".", ".", "/", ".", ".", "/", ".", "." >>,
    << "a", "/", "~" >>,
    << ".", "~" >>,
    << "/", "a", "/", ".", "/", "b" >>,
    << "/", "a", "/", ".", ".", "/", "b" >>,
    << "/", ".", "." >>,
    << "/", "~" >>,
    tildeCodeDemo }

AddPath == \E n \in { demo, Demo }, p \in PathCases : Add(n, p, work)

NextPaths == AddPath \/ RemoveAny

SpecPaths == Init /\ [][NextPaths]_vars

\* ------------------------------------------------------------------------
\* The config store when the file can be missing, unparsable or protected
\* ------------------------------------------------------------------------
Corrupt ==
  /\ file.kind # "absent"
  /\ file' = [kind |-> "garbage"]
  /\ call' = [op |-> "corrupt"]
  /\ UNCHANGED << perm, out, ui >>

Unlink ==
  /\ file.kind # "absent"
  /\ file' = [kind |-> "absent"]
  /\ call' = [op |-> "unlink"]
  /\ UNCHANGED << perm, out, ui >>

Chmod ==
  /\ \E pm \in SUBSET {"r", "w"} : pm # perm /\ perm' = pm
  /\ call' = [op |-> "chmod"]
  /\ UNCHANGED << file, out, ui >>

AddOne == \E n \in { demo, Demo } : Add(n, tildeCodeDemo, work)
RemoveOne == \E n \in { demo, Demo } : Remove(n)

NextFaulty == AddOne \/ RemoveOne \/ Load \/ Corrupt \/ Unlink \/ Chmod

SpecFaulty == Init /\ [][NextFaulty]_vars

\* ------------------------------------------------------------------------
\* Properties of the config store
\* ------------------------------------------------------------------------
\* The project sequence a following LoadConfig returns.
Persisted(f) == IF f.kind = "json" THEN Unmarshal(f.data) ELSE <<>>

LastMsg(o) == IF o = <<>> THEN [msg |-> "none"] ELSE o[Len(o)]

UniqueNames(config) ==
  \A i, j \in DOMAIN config : config[i].Name = config[j].Name => i = j

MinOf(S) == CHOOSE x \in S : \A y \in S : x <= y

Holders(config, name) == { i \in DOMAIN config : config[i].Name = name }

IsValidUTF8(str) == \A i \in DOMAIN str : str[i] # XFF

\* What Targets' paths are stored as: ~ is Home, a relative path is under
\* Cwd.
ExpectedTarget(path) ==
  CASE path = tildeCodeDemo -> homeCodeDemo
    [] path = relX -> cwdX

\* C1: after any sequence of AddProject and RemoveProject calls from the
\* empty config, no two persisted projects have the same name
\* (case-sensitive exact match).
C1_PersistedNamesUnique == UniqueNames(Persisted(file))

C3_SaveThenLoadIsIdentity ==
  [][call.op = "save" /\ call'.op = "load" => call'.got = call.config]_vars

\* C4: after RemoveProject(name) the lookup GoToProject(name) returns the
\* empty path, and a name whose lookup is empty stays so until an
\* AddProject with that name.  (RemoveProject(name) leaves the file as it
\* is when the lookup is already empty, so every state with an empty
\* lookup of name is a state right after RemoveProject(name).)
C4_RemovedStaysNotFound ==
  [][/\ call'.op = "remove" =>
          GoToProject(file', perm', call'.name).path = <<>>
     /\ \A n \in Names :
          (/\ GoToProject(file, perm, n).path = <<>>
           /\ GoToProject(file', perm', n).path # <<>>)
          => (call'.op = "add" /\ call'.name = n)
  ]_vars

DemoProject == Project(demo, homeCodeDemo, work)

\* C5: from the empty config add("demo", "~/code/demo", "work") leaves
\* exactly the project {demo, <home>/code/demo, work}; go("demo") then
\* prints cd <home>/code/demo; remove("demo") then leaves no project; and
\* go(name) prints cd <stored path> when a project called name exists, the
\* not-found message otherwise, and never changes the config.
C5_DemoScenarioAndGo ==
  [][/\ (/\ Persisted(file) = <<>>
         /\ call' = [op |-> "add", name |-> demo, path |-> tildeCodeDemo,
                     category |-> work])
        => Persisted(file') = << DemoProject >>
     /\ (Persisted(file) = << DemoProject >> /\ call' = [op |-> "go", name |-> demo])
        => (out' = << [msg |-> "cd", path |-> homeCodeDemo] >> /\ file' = file)
     /\ (Persisted(file) = << DemoProject >>
         /\ call' = [op |-> "remove", name |-> demo])
        => Persisted(file') = <<>>
     /\ call'.op = "go" =>
          LET held == Holders(Persisted(file), call'.name)
          IN /\ file' = file
             /\ out' = IF held # {}
                       THEN << [msg |-> "cd",
                                path |-> Persisted(file)[MinOf(held)].Path] >>
                       ELSE << [msg |-> "Project not found",
                                name |-> call'.name] >>
  ]_vars

\* go("demo") has printed the directory change of the demo project.
C5_Witness ==
  /\ call = [op |-> "go", name |-> demo]
  /\ out = << [msg |-> "cd", path |-> homeCodeDemo] >>
  /\ Persisted(file) = << DemoProject >>

\* What filepath resolves each of PathCases to, with HOME = /h and the
\* working directory /w.
ExpectedStored ==
  ( <<>> :> << "/", "w" >> )
  @@ ( << "/" >> :> << "/" >> )
  @@ ( << "~" >> :> << "/", "h" >> )
  @@ ( << "~", "/" >> :> << "/", "h" >> )
  @@ ( << "~", "a" >> :> << "/", "h", "/", "a" >> )
  @@ ( << "~", "/", "a" >> :> << "/", "h", "/", "a" >> )
  @@ ( << "~", "/", ".", ".", "/", "a" >> :> << "/", "a" >> )
  @@ ( << "~", "/", "a", "/", "/", "b", "/" >>
         :> << "/", "h", "/", "a", "/", "b" >> )
  @@ ( << "a" >> :> << "/", "w", "/", "a" >> )
  @@ ( << ".", "/", "a" >> :> << "/", "w", "/", "a" >> )
  @@ ( << ".", ".", "/", "a" >> :> << "/", "a" >> )
  @@ ( << ".", ".", "/", ".", ".", "/", ".", "." >> :> << "/" >> )
  @@ ( << "a", "/", "~" >> :> << "/", "w", "/", "a", "/", "~" >> )
  @@ ( << ".", "~" >> :> << "/", "w", "/", ".", "~" >> )
  @@ ( << "/", "a", "/", ".", "/", "b" >> :> << "/", "a", "/", "b" >> )
  @@ ( << "/", "a", "/", ".", ".", "/", "b" >> :> << "/", "b" >> )
  @@ ( << "/", ".", "." >> :> << "/" >> )
  @@ ( << "/", "~" >> :> << "/", "~" >> )
  @@ ( tildeCodeDemo :> homeCodeDemo )

\* C6: every path AddProject persists is absolute: a leading ~ is stored
\* as the home directory, a relative path is stored resolved against the
\* working directory, and no stored path is relative or begins with ~.
C6_StoredPathsAbsolute ==
  /\ \A i \in DOMAIN Persisted(file) :
       LET p == Persisted(file)[i].Path
       IN Len(p) > 0 /\ p[1] = "/"
  /\ call.op = "add" =>
       \E i \in DOMAIN Persisted(file) :
         /\ Persisted(file)[i].Name = call.name
         /\ Persisted(file)[i].Path = ExpectedStored[call.path]

\* A ~ path and a relative path have both been stored.
C6_Witness ==
  /\ call.op = "add"
  /\ call.path = << ".", "/", "a" >>
  /\ \E i, j \in DOMAIN Persisted(file) :
       /\ Persisted(file)[i].Path = << "/", "h", "/", "a", "/", "b" >>
       /\ Persisted(file)[j].Path = << "/", "w", "/", "a" >>

\* C7: LoadConfig returns a config with no projects when the file cannot
\* be read or parsed, reports the error, and never writes to the file.
C7_LoadFailsSoft ==
  [][call'.op = "load" =>
       /\ file' = file
       /\ (file.kind = "absent" \/ "r" \notin perm)
          => (call'.got = <<>>
              /\ out' = << [msg |-> "Error reading config file"] >>)
       /\ (file.kind = "garbage" /\ "r" \in perm)
          => (call'.got = <<>>
              /\ out' = << [msg |-> "Error parsing config file"] >>)
  ]_vars

\* LoadConfig has returned the empty config for an unparsable file.
C7_Witness ==
  /\ call.op = "load"
  /\ call.err = "parse"
  /\ call.got = <<>>
  /\ file.kind = "garbage"

\* C8: RemoveProject(name) deletes the first entry called name and only
\* it, the remaining entries keeping their order; when there is none it
\* reports not-found and leaves the file as it is.
C8_RemoveDeletesFirstMatch ==
  [][call'.op = "remove" =>
       LET before == Persisted(file)
           after == Persisted(file')
           held == Holders(before, call'.name)
       IN IF held # {}
          THEN /\ after = [j \in 1..(Len(before) - 1) |->
                             IF j < MinOf(held) THEN before[j]
                             ELSE before[j + 1]]
               /\ LastMsg(out').msg = "Removed project"
          ELSE /\ file' = file
               /\ out' = << [msg |-> "Project not found",
                             name |-> call'.name] >>
  ]_vars

\* A project was removed from a config of three.
C8_Witness ==
  /\ call.op = "remove"
  /\ LastMsg(out).msg = "Removed project"
  /\ Len(Persisted(file)) = 2

\* ------------------------------------------------------------------------
\* pkg/ui: the interactive session
\* ------------------------------------------------------------------------
MaxInput == 1
MaxLines == 3

Uncategorized ==
  << "U", "n", "c", "a", "t", "e", "g", "o", "r", "i", "z", "e", "d" >>

Nil == [nil |-> TRUE]

ProjectItem(p) ==
  [Name |-> p.Name, Path |-> p.Path,
   Category |-> IF p.Category = <<>> THEN Uncategorized ELSE p.Category]

\* The project items of a loaded config, in config order.
ItemsOf(config) == [i \in DOMAIN config |-> ProjectItem(config[i])]

\* The category items of a list of project items: one per distinct
\* category with its number of projects, by ascending name.
CategoryItemsOf(items) ==
  LET cats == { items[i].Category : i \in DOMAIN items }
      count(c) == Cardinality({ i \in DOMAIN items : items[i].Category = c })
      ord == CHOOSE f \in [1..Cardinality(cats) -> cats] :
               \A i, j \in 1..Cardinality(cats) :
                 i < j => StrLess(f[i], f[j])
  IN [i \in 1..Cardinality(cats) |-> [Name |-> ord[i], Count |-> count(ord[i])]]

\* less(i, j) of the sort.Slice calls: by name, ascending or descending.
ItemLess(a, b, order) ==
  IF order = "asc" THEN StrLess(a.Name, b.Name) ELSE StrLess(b.Name, a.Name)

\* The results sort.Slice can leave: the orderings of items in which no
\* element is less than an earlier one (sort.Slice is not stable, so items
\* with equal names can come out in any order).
SortSlice(items, order) ==
  LET n == Len(items)
      perms == { f \in [1..n -> 1..n] : \A i, j \in 1..n : f[i] = f[j] => i = j }
  IN { [i \in 1..n |-> items[f[i]]] : f \in
         { g \in perms : \A i, j \in 1..n :
             i < j => ~ItemLess(items[g[j]], items[g[i]], order) } }

InCategory(items, cat) == SelectSeq(items, LAMBDA it : it.Category = cat)

RECURSIVE TrimLeft(_)
TrimLeft(str) ==
  IF str # <<>> /\ str[1] = " " THEN TrimLeft(Tail(str)) ELSE str

RECURSIVE TrimRight(_)
TrimRight(str) ==
  IF str # <<>> /\ str[Len(str)] = " " THEN TrimRight(Front(str)) ELSE str

TrimSpace(str) == TrimRight(TrimLeft(str))

\* Directories that exist on disk (os.Stat succeeds).
ExistingDirs == { homeCodeDemo }

\* The zero value of a scan result: nothing was scanned.
NoScan == [of |-> <<>>]
ScanOf(path) == [of |-> path]

\* list.Model: the items handed to SetItems, the cursor and the filter
\* state.  SetItems leaves the cursor where it is.
SelectedListItem(l) ==
  IF l.index < Len(l.items) THEN l.items[l.index + 1] ELSE Nil

\* InitialModel: the models it can return for the config file f.
InitialModel(f, pm) ==
  LET items == ItemsOf(LoadConfig(f, pm).config)
  IN { [List |-> [items |-> sorted, index |-> 0, filterState |-> "unfiltered"],
        SelectedItem |-> Nil,
        ShowActions |-> FALSE,
        ShowForm |-> FALSE,
        FormInputs |-> << <<>>, <<>>, <<>> >>,
        FormFocused |-> 0,
        Quitting |-> FALSE,
        FileChart |-> NoScan,
        GitInfo |-> NoScan,
        HealthStatus |-> NoScan,
        HealthScanned |-> FALSE,
        QuitCommand |-> <<>>,
        ViewMode |-> "projects",
        SelectedCategory |-> <<>>,
        CategoryItems |-> CategoryItemsOf(items),
        ProjectItems |-> sorted,
        SortOrder |-> "asc",
        ScrollOffset |-> 0,
        WindowHeight |-> 0] : sorted \in SortSlice(items, "asc") }

\* ActionView writes 17 newlines around the texts it renders (the header of
\* four, one after the Git information, ten actions, two around the back
\* key), so it has at least 18 lines.
ActionViewLines == 18

\* The lines View splits the content into: the ActionView, the separator
\* and the health dashboard; extra counts the lines of the dashboard and
\* those the Git information and the file chart add.
ContentLines(extra) == ActionViewLines + 1 + extra

\* ListModel.View for the ActionView: the window of the content it slices.
VisibleHeight(mm) ==
  IF mm.WindowHeight > 0 THEN mm.WindowHeight - 6 ELSE 30

MaxStartLine(mm, L) ==
  IF L - VisibleHeight(mm) < 0 THEN 0 ELSE L - VisibleHeight(mm)

StartLine(mm, L) ==
  LET s0 == IF mm.ScrollOffset < 0 THEN 0 ELSE mm.ScrollOffset
  IN IF s0 > MaxStartLine(mm, L) THEN MaxStartLine(mm, L) ELSE s0

EndLine(mm, L) ==
  IF StartLine(mm, L) + VisibleHeight(mm) > L THEN L
  ELSE StartLine(mm, L) + VisibleHeight(mm)

\* lines[startLine:endLine] panics when the bounds are out of range.
ViewPanics(mm, L) ==
  /\ ~mm.Quitting
  /\ ~mm.ShowForm
  /\ mm.ShowActions
  /\ ~(0 <= StartLine(mm, L) /\ StartLine(mm, L) <= EndLine(mm, L)
       /\ EndLine(mm, L) <= L)

\* ScanProjectHealth runs of one event, counted up to MaxScans: the select
\* handler scans when it sets HealthScanned, RenderHealthDashboard scans on
\* every render of the ActionView while HealthScanned is false.
MaxScans == 2

ScansAfter(mm) ==
  LET entering == ~m.ShowActions /\ mm.ShowActions
      handler == IF entering /\ ~m.HealthScanned /\ mm.HealthScanned
                 THEN 1 ELSE 0
      render == IF /\ ~mm.Quitting /\ ~mm.ShowForm /\ mm.ShowActions
                   /\ mm.SelectedItem # Nil /\ ~mm.HealthScanned
                THEN 1 ELSE 0
      total == (IF entering THEN 0 ELSE scans) + handler + render
  IN IF ~mm.ShowActions THEN 0
     ELSE IF total > MaxScans THEN MaxScans ELSE total

\* The session accepts an event: it has not quit and View has not panicked.
Running == ~m.Quitting /\ ~crashed

InList == Running /\ ~m.ShowForm /\ ~m.ShowActions
InForm == Running /\ m.ShowForm
InActions == Running /\ ~m.ShowForm /\ m.ShowActions
\* A handler that does not look at the filter state.
FilteringIgnored == FALSE

\* m.List.FilterState() == list.Filtering
Filtering == m.List.filterState = "filtering"

UIEvent == [op |-> "event"]

\* One Update of the model followed by the render of the new model; L is
\* the number of content lines when the new model shows the ActionView.
Step(mm, L) ==
  /\ m' = mm
  /\ lines' = IF mm.ShowActions THEN L ELSE 0
  /\ crashed' = ViewPanics(mm, L)
  /\ scans' = ScansAfter(mm)
  /\ call' = UIEvent
  /\ tmp' = tmp

\* ------------------------------------------------------------------------
\* handleListView
\* ------------------------------------------------------------------------
\* The quit key, while filtering or not.
ListQuit ==
  /\ InList
  /\ Step([m EXCEPT !.Quitting = TRUE], lines)
  /\ out' = <<>>
  /\ UNCHANGED << file, perm >>

\* A sort key that toggles SortOrder and leaves the items as they are.
SortKeyTogglingOnly(mm) ==
  IF mm.ViewMode # "projects" THEN { mm }
  ELSE { [mm EXCEPT !.SortOrder = IF mm.SortOrder = "asc" THEN "desc"
                                  ELSE "asc"] }

\* The models the sort key can leave.
SortKey(mm) ==
  IF mm.ViewMode # "projects" THEN { mm }
  ELSE LET order == IF mm.SortOrder = "asc" THEN "desc" ELSE "asc"
       IN { [mm EXCEPT
               !.SortOrder = order,
               !.ProjectItems = sorted,
               !.List.items =
                  IF mm.SelectedCategory # <<>>
                  THEN InCategory(sorted, mm.SelectedCategory)
                  ELSE sorted] : sorted \in SortSlice(mm.ProjectItems, order) }

ListSort ==
  /\ InList /\ ~Filtering
  /\ \E mm \in SortKey(m) : Step(mm, lines)
  /\ out' = <<>>
  /\ UNCHANGED << file, perm >>

ListUp ==
  /\ InList /\ ~Filtering
  /\ Step(IF m.List.index > 0
          THEN [m EXCEPT !.List.index = m.List.index - 1] ELSE m,
          lines)
  /\ out' = <<>>
  /\ UNCHANGED << file, perm >>

ListDown ==
  /\ InList /\ ~Filtering
  /\ Step(IF m.List.index < Len(m.List.items) - 1
          THEN [m EXCEPT !.List.index = m.List.index + 1] ELSE m,
          lines)
  /\ out' = <<>>
  /\ UNCHANGED << file, perm >>

ListToggleView ==
  /\ InList /\ ~Filtering
  /\ Step(IF m.ViewMode = "projects"
          THEN [m EXCEPT !.ViewMode = "categories",
                         !.SelectedCategory = <<>>,
                         !.List.items = m.CategoryItems]
          ELSE [m EXCEPT !.ViewMode = "projects",
                         !.List.items = m.ProjectItems],
          lines)
  /\ out' = <<>>
  /\ UNCHANGED << file, perm >>

\* Enter on a category: the projects of that category, sorted.
SelectCategory(mm) ==
  LET selected == SelectedListItem(mm.List)
  IN { [mm EXCEPT !.SelectedCategory = selected.Name,
                  !.ViewMode = "projects",
                  !.List.items = filtered] :
         filtered \in SortSlice(InCategory(mm.ProjectItems, selected.Name),
                                mm.SortOrder) }

\* Enter on a project: the ActionView, with the scans of its directory.
SelectProject(mm) ==
  LET selected == SelectedListItem(mm.List)
      shown == [mm EXCEPT !.SelectedItem = selected,
                          !.ShowActions = TRUE,
                          !.ScrollOffset = 0]
  IN IF selected.Path \in ExistingDirs
     THEN [shown EXCEPT
             !.FileChart = ScanOf(selected.Path),
             !.GitInfo = ScanOf(selected.Path),
             !.HealthStatus = IF mm.HealthScanned THEN mm.HealthStatus
                              ELSE ScanOf(selected.Path),
             !.HealthScanned = TRUE]
     ELSE shown

ListSelect ==
  /\ InList /\ ~Filtering
  /\ IF Len(m.List.items) > 0 /\ SelectedListItem(m.List) # Nil
     THEN IF m.ViewMode = "categories"
          THEN \E mm \in SelectCategory(m) :
                 Step(mm, lines)
          ELSE \E extra \in 1..MaxLines :
                 Step(SelectProject(m), ContentLines(extra))
     ELSE Step(m, lines)
  /\ out' = <<>>
  /\ UNCHANGED << file, perm >>

\* An add key that opens the form in the categories view as well.
ListAddInAnyMode ==
  /\ InList /\ ~Filtering
  /\ Step([m EXCEPT !.ShowForm = TRUE, !.FormFocused = 0], lines)
  /\ out' = <<>>
  /\ UNCHANGED << file, perm >>

ListAdd ==
  /\ InList /\ ~Filtering
  /\ Step(IF m.ViewMode = "projects"
          THEN [m EXCEPT !.ShowForm = TRUE, !.FormFocused = 0] ELSE m,
          lines)
  /\ out' = <<>>
  /\ UNCHANGED << file, perm >>

\* A handler that sorts the items it holds without reloading the config.
ReloadedItemsNotReloaded(f, pm, order) == SortSlice(m.ProjectItems, order)

\* The project items of the config file, in the order sort.Slice leaves.
ReloadedItems(f, pm, order) == SortSlice(ItemsOf(LoadConfig(f, pm).config), order)

ListDelete ==
  /\ InList /\ ~Filtering
  /\ IF /\ m.ViewMode = "projects"
        /\ Len(m.List.items) > 0
        /\ SelectedListItem(m.List) # Nil
     THEN LET r == RemoveProject(file, perm, SelectedListItem(m.List).Name)
          IN /\ file' = r.file
             /\ out' = r.out
             /\ \E items \in ReloadedItems(r.file, perm, m.SortOrder) :
                  Step([m EXCEPT !.ProjectItems = items,
                                 !.CategoryItems = CategoryItemsOf(items),
                                 !.List.items = items],
                       lines)
     ELSE /\ Step(m, lines)
          /\ out' = <<>>
          /\ UNCHANGED file
  /\ UNCHANGED perm

\* The filter key is not handled here: the list widget starts filtering.
ListFilter ==
  /\ InList /\ ~Filtering
  /\ Len(m.List.items) > 0
  /\ Step([m EXCEPT !.List.filterState = "filtering", !.List.index = 0],
          lines)
  /\ out' = <<>>
  /\ UNCHANGED << file, perm >>

\* While filtering every key but quit goes to the list widget, which keeps
\* filtering or leaves the filter.
ListFiltering ==
  /\ InList /\ Filtering
  /\ \E fs \in { "filtering", "unfiltered" } :
       Step([m EXCEPT !.List.filterState = fs], lines)
  /\ out' = <<>>
  /\ UNCHANGED << file, perm >>

\* ------------------------------------------------------------------------
\* handleFormView
\* ------------------------------------------------------------------------
NumInputs == 3

FormEsc ==
  /\ InForm
  /\ Step([m EXCEPT !.ShowForm = FALSE], lines)
  /\ out' = <<>>
  /\ UNCHANGED << file, perm >>

FormTab ==
  /\ InForm
  /\ Step([m EXCEPT !.FormFocused = (m.FormFocused + 1) % NumInputs],
          lines)
  /\ out' = <<>>
  /\ UNCHANGED << file, perm >>

FormShiftTab ==
  /\ InForm
  /\ Step([m EXCEPT
             !.FormFocused = (m.FormFocused - 1 + NumInputs) % NumInputs],
          lines)
  /\ out' = <<>>
  /\ UNCHANGED << file, perm >>

\* The form with its fields emptied and the focus on the first one.
NoInputs == << <<>>, <<>>, <<>> >>

\* A submission that closes the form but keeps what was typed.
FormEnterKeyKeepingInputs(mm, f, pm) ==
  LET name == TrimSpace(mm.FormInputs[1])
      path == TrimSpace(mm.FormInputs[2])
      category == TrimSpace(mm.FormInputs[3])
      r == AddProject(f, pm, name, path, category)
  IN IF mm.FormFocused = NumInputs - 1 /\ name # <<>> /\ path # <<>>
     THEN { [m |-> [mm EXCEPT !.ProjectItems = items,
                              !.List.items = items,
                              !.ShowForm = FALSE],
             file |-> r.file, out |-> r.out] :
            items \in SortSlice(ItemsOf(LoadConfig(r.file, pm).config),
                                mm.SortOrder) }
     ELSE { [m |-> mm, file |-> f, out |-> <<>>] }

\* The enter key: what it leaves of the model, the config file and the
\* output.  On the last field it submits, on the others it moves on.
FormEnterKey(mm, f, pm) ==
  LET name == TrimSpace(mm.FormInputs[1])
      path == TrimSpace(mm.FormInputs[2])
      category == TrimSpace(mm.FormInputs[3])
      r == AddProject(f, pm, name, path, category)
  IN IF mm.FormFocused = NumInputs - 1
     THEN IF name # <<>> /\ path # <<>>
          THEN { [m |-> [mm EXCEPT !.ProjectItems = items,
                                   !.List.items = items,
                                   !.FormInputs = NoInputs,
                                   !.FormFocused = 0,
                                   !.ShowForm = FALSE],
                  file |-> r.file, out |-> r.out] :
                 items \in ReloadedItems(r.file, pm, mm.SortOrder) }
          ELSE { [m |-> mm, file |-> f, out |-> <<>>] }
     ELSE { [m |-> [mm EXCEPT
                      !.FormFocused = (mm.FormFocused + 1) % NumInputs],
             file |-> f, out |-> <<>>] }

\* The submission would add a project beyond the bound of the model.
BeyondMaxProjects(mm, f, pm) ==
  LET name == TrimSpace(mm.FormInputs[1])
      config == LoadConfig(f, pm).config
  IN /\ mm.FormFocused = NumInputs - 1
     /\ name # <<>> /\ TrimSpace(mm.FormInputs[2]) # <<>>
     /\ Len(config) >= MaxProjects
     /\ FirstIndex(config, name) = 0

\* Enter: the next field, or on the last field the submission.
FormEnter ==
  /\ InForm
  /\ ~BeyondMaxProjects(m, file, perm)
  /\ \E r \in FormEnterKey(m, file, perm) :
       /\ Step(r.m, lines)
       /\ file' = r.file
       /\ out' = r.out
  /\ UNCHANGED perm

\* Any other key is text for the focused input.
TypedUnits == { "a" }

FormType ==
  /\ InForm
  /\ Len(m.FormInputs[m.FormFocused + 1]) < MaxInput
  /\ \E u \in TypedUnits :
       Step([m EXCEPT !.FormInputs[m.FormFocused + 1] = Append(@, u)],
            lines)
  /\ out' = <<>>
  /\ UNCHANGED << file, perm >>

\* Text with blanks, which strings.TrimSpace is there for: at most MaxTyped
\* characters in the three fields together.
MaxTyped == 3
BlankUnits == { "a", " " }

FormTypeBlank ==
  /\ InForm
  /\ Len(m.FormInputs[1]) + Len(m.FormInputs[2]) + Len(m.FormInputs[3])
       < MaxTyped
  /\ \E u \in BlankUnits :
       Step([m EXCEPT !.FormInputs[m.FormFocused + 1] = Append(@, u)],
            lines)
  /\ out' = <<>>
  /\ UNCHANGED << file, perm >>

\* ------------------------------------------------------------------------
\* handleActionsView
\* ------------------------------------------------------------------------
EndOffset == 9999
DefaultPageSize == 10
MaxScroll == 12

PageSize(mm) ==
  IF mm.WindowHeight > 0 THEN mm.WindowHeight \div 2 ELSE DefaultPageSize

\* A back key that leaves the cached-health flag set.
ActBackKeyKeepingHealth(mm, f) ==
  [m |-> [mm EXCEPT !.ShowActions = FALSE, !.ScrollOffset = 0],
   file |-> f, out |-> <<>>]

\* The back key (esc or q): what it leaves of the model, the config file
\* and the output.
ActBackKey(mm, f) ==
  [m |-> [mm EXCEPT !.ShowActions = FALSE,
                    !.HealthScanned = FALSE,
                    !.ScrollOffset = 0],
   file |-> f, out |-> <<>>]

ActBack ==
  /\ InActions
  /\ LET r == ActBackKey(m, file)
     IN /\ Step(r.m, lines)
        /\ file' = r.file
        /\ out' = r.out
  /\ UNCHANGED perm

\* The up key: one line up, not above the top.
ActUpKey(mm) ==
  IF mm.ScrollOffset > 0
  THEN [mm EXCEPT !.ScrollOffset = mm.ScrollOffset - 1] ELSE mm

ActUp ==
  /\ InActions
  /\ Step(ActUpKey(m), lines)
  /\ out' = <<>>
  /\ UNCHANGED << file, perm >>

ActDown ==
  /\ InActions
  /\ m.ScrollOffset < MaxScroll
  /\ Step([m EXCEPT !.ScrollOffset = m.ScrollOffset + 1],
          lines)
  /\ out' = <<>>
  /\ UNCHANGED << file, perm >>

\* The pgup key: one page up, to the top when less than a page is above.
ActPgUpKey(mm) ==
  IF mm.ScrollOffset >= PageSize(mm)
  THEN [mm EXCEPT !.ScrollOffset = mm.ScrollOffset - PageSize(mm)]
  ELSE [mm EXCEPT !.ScrollOffset = 0]

ActPgUp ==
  /\ InActions
  /\ Step(ActPgUpKey(m), lines)
  /\ out' = <<>>
  /\ UNCHANGED << file, perm >>

\* The pgdown key: one page down, whatever the length of the content.
ActPgDownKey(mm) ==
  [mm EXCEPT !.ScrollOffset = mm.ScrollOffset + PageSize(mm)]

ActPgDown ==
  /\ InActions
  /\ m.ScrollOffset + PageSize(m) <= MaxScroll
  /\ Step(ActPgDownKey(m), lines)
  /\ out' = <<>>
  /\ UNCHANGED << file, perm >>

\* The home key.
ActHomeKey(mm) == [mm EXCEPT !.ScrollOffset = 0]

ActHome ==
  /\ InActions
  /\ Step(ActHomeKey(m), lines)
  /\ out' = <<>>
  /\ UNCHANGED << file, perm >>

\* The end key: a large offset that View is left to clamp.
ActEndKey(mm) == [mm EXCEPT !.ScrollOffset = EndOffset]

ActEnd ==
  /\ InActions
  /\ Step(ActEndKey(m), lines)
  /\ out' = <<>>
  /\ UNCHANGED << file, perm >>

ActDelete ==
  /\ InActions
  /\ IF m.SelectedItem # Nil
     THEN LET r == RemoveProject(file, perm, m.SelectedItem.Name)
          IN /\ file' = r.file
             /\ out' = r.out
             /\ \E items \in ReloadedItems(r.file, perm, m.SortOrder) :
                  Step([m EXCEPT !.ProjectItems = items,
                                 !.List.items = items,
                                 !.ShowActions = FALSE],
                       lines)
     ELSE /\ Step(m, lines)
          /\ out' = <<>>
          /\ UNCHANGED file
  /\ UNCHANGED perm

\* The text "cd <path>" and what the Neovim key appends to it.
CdCommand(path) == << "c", "d", " " >> \o path

NvimSuffix == << " ", "&", "&", " ", "n", "v", "i", "m", " ", "." >>

\* runtime.GOOS of the build.
GOOS == { "linux", "darwin", "windows" }

KeyEvent(k) == [op |-> "key", key |-> k]

\* The navigate key (g or enter).  On darwin and linux it writes the temp
\* file, and written tells whether os.WriteFile succeeded; elsewhere it
\* stores the command in QuitCommand.
ActGoToKey(mm, t, goos, written) ==
  LET cd == CdCommand(mm.SelectedItem.Path)
  IN IF goos \in { "darwin", "linux" }
     THEN [m |-> [mm EXCEPT !.Quitting = TRUE],
           tmp |-> IF written THEN [kind |-> "file", data |-> cd] ELSE t,
           out |-> IF written
                   THEN << [msg |-> "To change to the selected directory",
                            source |-> "mpm_cd_command"] >>
                   ELSE <<>>]
     ELSE [m |-> [mm EXCEPT !.QuitCommand = cd, !.Quitting = TRUE],
           tmp |-> t, out |-> <<>>]

ActGoTo ==
  /\ InActions
  /\ m.SelectedItem # Nil
  /\ \E goos \in GOOS, written \in BOOLEAN :
       LET r == ActGoToKey(m, tmp, goos, written)
       IN /\ m' = r.m
          /\ tmp' = r.tmp
          /\ out' = r.out
  /\ call' = KeyEvent("goto")
  /\ lines' = lines
  /\ crashed' = ViewPanics(m', lines)
  /\ scans' = ScansAfter(m')
  /\ UNCHANGED << file, perm >>

\* The Neovim key (n).
ActNeovimKey(mm) ==
  [mm EXCEPT !.Quitting = TRUE,
             !.QuitCommand = CdCommand(mm.SelectedItem.Path) \o NvimSuffix]

ActNeovim ==
  /\ InActions
  /\ m.SelectedItem # Nil
  /\ m' = ActNeovimKey(m)
  /\ call' = KeyEvent("neovim")
  /\ out' = <<>>
  /\ lines' = lines
  /\ crashed' = ViewPanics(m', lines)
  /\ scans' = ScansAfter(m')
  /\ UNCHANGED << file, perm, tmp >>

\* The launch keys and the program exec.Command is given for each.
LaunchKeys == { "v", "z", "c", "f", "s", "t", "m" }

Program(k, goos) ==
  CASE k = "v" -> "code"
    [] k = "z" -> "zed"
    [] k = "c" -> "cursor"
    [] k = "s" -> "subl"
    [] k = "t" -> "trae"
    [] k = "m" -> "mate"
    [] k = "f" -> IF goos = "darwin" THEN "open"
                  ELSE IF goos = "windows" THEN "explorer"
                  ELSE "xdg-open"

\* A launch key that leaves the session running.
ActLaunchKeyStayingOpen(mm) == mm

\* A launch key: cmd.Start() is not waited for and its error is dropped.
ActLaunchKey(mm) == [mm EXCEPT !.Quitting = TRUE]

ActLaunch ==
  /\ InActions
  /\ m.SelectedItem # Nil
  /\ m' = ActLaunchKey(m)
  /\ \E k \in LaunchKeys, goos \in GOOS, started \in BOOLEAN :
       call' = [op |-> "key", key |-> "launch",
                program |-> Program(k, goos),
                path |-> m.SelectedItem.Path,
                started |-> started]
  /\ out' = <<>>
  /\ lines' = lines
  /\ crashed' = ViewPanics(m', lines)
  /\ scans' = ScansAfter(m')
  /\ UNCHANGED << file, perm, tmp >>

\* ------------------------------------------------------------------------
\* ListModel.Update on a tea.WindowSizeMsg
\* ------------------------------------------------------------------------
\* Terminal heights: one too small for the margin of 6, one shorter and one
\* taller than the content.
WindowHeights == { 3, 24, 28 }

WindowSize ==
  /\ Running
  /\ \E h \in WindowHeights :
       /\ h # m.WindowHeight
       /\ Step([m EXCEPT !.WindowHeight = h], lines)
  /\ out' = <<>>
  /\ UNCHANGED << file, perm >>

\* ------------------------------------------------------------------------
\* The interactive session: tea.NewProgram(InitialModel()) and its events
\* ------------------------------------------------------------------------
\* The config file the session starts with: a project whose directory
\* exists and one, without a category, whose directory does not.
UIConfig ==
  << Project(demo, homeCodeDemo, work),
     Project(<< "b" >>, Cwd \o << "/", "b" >>, <<>>) >>

InitUI ==
  /\ file = JsonFile(UIConfig)
  /\ perm = {"r", "w"}
  /\ out = <<>>
  /\ call = NoCall
  /\ m \in InitialModel(file, perm)
  /\ lines = 0
  /\ crashed = FALSE
  /\ scans = 0
  /\ tmp = NoFile

NextUI ==
  \/ ListQuit \/ ListSort \/ ListUp \/ ListDown \/ ListToggleView
  \/ ListSelect \/ ListAdd \/ ListDelete \/ ListFilter \/ ListFiltering
  \/ FormEsc \/ FormTab \/ FormShiftTab \/ FormEnter \/ FormType
  \/ ActBack \/ ActDelete

\* Browsing, adding and deleting projects in a session.
SpecUI == InitUI /\ [][NextUI]_vars

NextScroll ==
  \/ ListUp \/ ListDown \/ ListSelect \/ ActBack \/ WindowSize
  \/ ActUp \/ ActDown \/ ActPgUp \/ ActPgDown \/ ActHome \/ ActEnd

\* Opening the ActionView and scrolling it.
SpecScroll == InitUI /\ [][NextScroll]_vars

NextForm ==
  \/ ListAdd \/ ListSort \/ ListToggleView
  \/ FormEsc \/ FormTab \/ FormShiftTab \/ FormEnter \/ FormTypeBlank

\* Filling, submitting and cancelling the add-project form.
SpecForm == InitUI /\ [][NextForm]_vars

NextActions ==
  \/ ListUp \/ ListDown \/ ListSelect
  \/ ActBack \/ ActGoTo \/ ActNeovim \/ ActLaunch \/ ActDelete

\* Opening the ActionView and using its keys.
SpecActions == InitUI /\ [][NextActions]_vars

NextFilter ==
  \/ ListQuit \/ ListFilter \/ ListFiltering
  \/ ListSort \/ ListUp \/ ListDown \/ ListToggleView \/ ListSelect
  \/ ListAdd \/ ListDelete \/ FormEsc \/ ActBack

\* Filtering the list between the other keys of the ListView.
SpecFilter == InitUI /\ [][NextFilter]_vars

\* ------------------------------------------------------------------------
\* cmd.ListProjects and the categories of InitialModel
\* ------------------------------------------------------------------------
\* sort.Strings of a set of strings.
SortStrings(S) ==
  CHOOSE f \in [1..Cardinality(S) -> S] :
    \A i, j \in 1..Cardinality(S) : i < j => StrLess(f[i], f[j])

\* A listing that groups by the category as stored.
ListProjectsByStoredCategory(f, pm) ==
  LET ld == LoadConfig(f, pm)
      cfg == ld.config
      sortedCategories == SortStrings({ cfg[i].Category : i \in DOMAIN cfg })
  IN IF Len(cfg) = 0
     THEN LoadMsgs(ld) \o << [msg |-> "No projects found"] >>
     ELSE LoadMsgs(ld) \o
          [i \in DOMAIN sortedCategories |->
             [msg |-> "category", category |-> sortedCategories[i],
              projects |->
                LET ps == SelectSeq(cfg, LAMBDA p :
                                      p.Category = sortedCategories[i])
                IN [k \in DOMAIN ps |->
                      [Name |-> ps[k].Name, Path |-> ps[k].Path]]]]

\* ListProjects: what it prints, one entry per category header with the
\* project lines under it.
ListProjects(f, pm) ==
  LET ld == LoadConfig(f, pm)
      cfg == [i \in DOMAIN ld.config |->
                IF ld.config[i].Category = <<>>
                THEN [ld.config[i] EXCEPT !.Category = Uncategorized]
                ELSE ld.config[i]]
      sortedCategories == SortStrings({ cfg[i].Category : i \in DOMAIN cfg })
  IN IF Len(cfg) = 0
     THEN LoadMsgs(ld) \o << [msg |-> "No projects found"] >>
     ELSE LoadMsgs(ld) \o
          [i \in DOMAIN sortedCategories |->
             [msg |-> "category", category |-> sortedCategories[i],
              projects |->
                LET ps == SelectSeq(cfg, LAMBDA p :
                                      p.Category = sortedCategories[i])
                IN [k \in DOMAIN ps |->
                      [Name |-> ps[k].Name, Path |-> ps[k].Path]]]]

\* mpm list
List ==
  /\ out' = ListProjects(file, perm)
  /\ call' = [op |-> "list"]
  /\ UNCHANGED << file, perm, ui >>

\* mpm i: the model the session starts with.
Interactive ==
  /\ m' \in InitialModel(file, perm)
  /\ out' = LoadMsgs(LoadConfig(file, perm))
  /\ call' = [op |-> "interactive"]
  /\ lines' = 0
  /\ crashed' = FALSE
  /\ scans' = 0
  /\ UNCHANGED << file, perm, tmp >>

\* Categories given to add: none, two that differ in case, and the name
\* the empty one is shown under.
Categories == { <<>>, work, << "W", "o", "r", "k" >>, Uncategorized }

GroupNames == { demo, Demo, << "b" >> }

AddGrouped == \E n \in GroupNames, c \in Categories : Add(n, relX, c)

\* The commands build a config; it is then listed, or a session is started
\* on it.
NextGroups ==
  \/ m = NoModel /\ AddGrouped
  \/ m = NoModel /\ RemoveAny
  \/ List
  \/ Interactive

\* Listing and browsing configs with every mix of categories.
SpecGroups == Init /\ [][NextGroups]_vars

\* ------------------------------------------------------------------------
\* Properties of the interactive session
\* ------------------------------------------------------------------------
\* C9: in the ActionView, for content of L lines and a visible window of H
\* lines, after any sequence of up, down, page-up, page-down, home and end
\* keys the ScrollOffset the model holds satisfies
\* 0 <= ScrollOffset <= max(0, L - H).
C9_ScrollOffsetClamped ==
  (m.ShowActions /\ ~crashed) =>
    /\ 0 <= m.ScrollOffset
    /\ m.ScrollOffset <= (IF lines - VisibleHeight(m) > 0
                          THEN lines - VisibleHeight(m) ELSE 0)

\* The names of the project items are pairwise distinct.
DistinctNames(items) ==
  \A i, j \in DOMAIN items : items[i].Name = items[j].Name => i = j

\* C10: in projects mode, for a project list with pairwise distinct names,
\* two presses of the sort key in a row restore SortOrder and the displayed
\* order of the projects, also when a category-filtered list is shown.
C10_SortTwiceRestores ==
  (InList /\ ~Filtering /\ m.ViewMode = "projects"
     /\ DistinctNames(m.ProjectItems)) =>
    \A m1 \in SortKey(m) : \A m2 \in SortKey(m1) :
      /\ m2.SortOrder = m.SortOrder
      /\ m2.List.items = m.List.items

\* The two lists hold the same items, each as often.
SameItems(a, b) ==
  /\ Len(a) = Len(b)
  /\ \A x \in { a[i] : i \in DOMAIN a } :
       Cardinality({ i \in DOMAIN a : a[i] = x })
         = Cardinality({ i \in DOMAIN b : b[i] = x })

\* No item comes before one with a name that sorts before it.
Ordered(items, order) ==
  \A i, j \in DOMAIN items :
    i < j => IF order = "asc"
             THEN ~StrLess(items[j].Name, items[i].Name)
             ELSE ~StrLess(items[i].Name, items[j].Name)

\* C11: in the FormView, enter on the last field with a non-empty trimmed
\* name and path calls AddProject exactly once with the trimmed name, path
\* and category, then shows the ListView in projects mode with the reloaded
\* projects ordered by SortOrder, the three inputs cleared and the focus on
\* the first field; with an empty trimmed name or path the config is
\* unchanged and the form stays open.
C11_SubmitAddsOnceAndReturns ==
  (InForm /\ m.FormFocused = NumInputs - 1) =>
    LET name == TrimSpace(m.FormInputs[1])
        path == TrimSpace(m.FormInputs[2])
        category == TrimSpace(m.FormInputs[3])
        added == AddProject(file, perm, name, path, category)
    IN \A r \in FormEnterKey(m, file, perm) :
         IF name # <<>> /\ path # <<>>
         THEN /\ r.file = added.file
              /\ r.out = added.out
              /\ ~r.m.ShowForm /\ ~r.m.ShowActions /\ ~r.m.Quitting
              /\ r.m.ViewMode = "projects"
              /\ r.m.SortOrder = m.SortOrder
              /\ SameItems(r.m.List.items, ItemsOf(Persisted(r.file)))
              /\ Ordered(r.m.List.items, r.m.SortOrder)
              /\ r.m.FormInputs = << <<>>, <<>>, <<>> >>
              /\ r.m.FormFocused = 0
         ELSE /\ r.file = file
              /\ r.m.ShowForm
              /\ r.m.FormInputs = m.FormInputs

\* A submission has added project a to a list in descending order.
C11_Witness ==
  /\ ~m.ShowForm /\ ~m.Quitting
  /\ LastMsg(out).msg = "Added project"
  /\ LastMsg(out).name = << "a" >>
  /\ m.SortOrder = "desc"
  /\ Len(m.List.items) = 3
  /\ m.List.items[3].Name = << "a" >>
  /\ m.FormInputs = << <<>>, <<>>, <<>> >>

\* C12: cancelling the FormView with esc returns to the ListView without
\* calling AddProject and discards the typed input: the next time the add
\* key opens the form its three fields are empty.
C12_CancelDiscardsInput ==
  [][/\ (m.ShowForm /\ ~m'.ShowForm /\ out' = <<>>) =>
          /\ file' = file
          /\ ~m'.ShowActions /\ ~m'.Quitting
     /\ (~m.ShowForm /\ m'.ShowForm) =>
          m'.FormInputs = << <<>>, <<>>, <<>> >>
  ]_vars

\* C13: back (esc or q) in the ActionView always returns to the ListView
\* with ShowActions false, HealthScanned false and ScrollOffset 0; it does
\* not end the session and does not modify the config.
C13_BackReturnsToList ==
  InActions =>
    LET r == ActBackKey(m, file)
    IN /\ ~r.m.ShowActions /\ ~r.m.ShowForm
       /\ ~r.m.HealthScanned
       /\ r.m.ScrollOffset = 0
       /\ ~r.m.Quitting
       /\ r.file = file
       /\ r.m.ViewMode = m.ViewMode
       /\ r.m.List = m.List

\* Back has closed the ActionView of a scanned project.
C13_Witness ==
  /\ Running /\ ~m.ShowActions /\ ~m.ShowForm
  /\ m.SelectedItem # Nil
  /\ m.HealthStatus # NoScan
  /\ ~m.HealthScanned
  /\ m.ScrollOffset = 0
  /\ m.WindowHeight = 24

\* C14: the health scan (ScanProjectHealth) runs at most once per selection
\* of a project: once a project is selected, no later key event or
\* re-render while its ActionView is shown runs the scan again, whether or
\* not the project's directory exists.
C14_HealthScanOncePerSelection == scans <= 1

\* C15: when the selected project's directory does not exist, the
\* ActionView shows zero-value scan results (FileChart and FileTypeCounts
\* empty, GitInfo without repository), whatever was selected earlier in
\* the session.
C15_MissingDirShowsNoScan ==
  (m.ShowActions /\ m.SelectedItem # Nil
     /\ m.SelectedItem.Path \notin ExistingDirs) =>
    /\ m.FileChart = NoScan
    /\ m.GitInfo = NoScan

\* C16: navigate (g or enter) and neovim (n) in the ActionView end the
\* session and always hand the shell wrapper the directory change for the
\* selected path: for navigate the temp file mpm_cd_command holds exactly
\* "cd <path>" or QuitCommand is "cd <path>"; for neovim QuitCommand is
\* "cd <path> && nvim .".
C16_NavigateHandsOverCd ==
  /\ (call.op = "key" /\ call.key = "goto") =>
       /\ m.Quitting
       /\ \/ tmp = [kind |-> "file",
                    data |-> CdCommand(m.SelectedItem.Path)]
          \/ m.QuitCommand = CdCommand(m.SelectedItem.Path)
  /\ (call.op = "key" /\ call.key = "neovim") =>
       /\ m.Quitting
       /\ m.QuitCommand = CdCommand(m.SelectedItem.Path) \o NvimSuffix

\* C17: each launch key (v, z, c, f, s, t, m) in the ActionView starts the
\* external program without waiting for it and ends the session with an
\* empty QuitCommand and an unchanged config and temp file, whether or not
\* the spawn succeeded; once Quitting is set no view is rendered and no
\* event is handled.
C17_LaunchEndsSession ==
  [][/\ ~m.Quitting /\ ~crashed
     /\ (call'.op = "key" /\ call'.key = "launch") =>
          /\ m.ShowActions /\ call'.path = m.SelectedItem.Path
          /\ m'.Quitting
          /\ m'.QuitCommand = <<>>
          /\ file' = file /\ tmp' = tmp /\ out' = <<>>
          /\ ~crashed'
          /\ m' = [m EXCEPT !.Quitting = TRUE]
  ]_vars

\* The Finder key has ended the session although xdg-open did not start.
C17_Witness ==
  /\ call.op = "key" /\ call.key = "launch"
  /\ call.program = "xdg-open" /\ ~call.started
  /\ call.path = homeCodeDemo
  /\ m.Quitting /\ m.QuitCommand = <<>>

\* C18: while the filter input of the list is active, a key other than
\* quit changes none of ViewMode, SelectedCategory, SortOrder, ShowForm,
\* ShowActions, SelectedItem or the persisted config and only reaches the
\* list widget; the quit key ends the session.
C18_FilteringSuspendsKeys ==
  [][(/\ ~m.Quitting /\ ~crashed /\ ~m.ShowForm /\ ~m.ShowActions
      /\ m.List.filterState = "filtering") =>
       /\ file' = file /\ tmp' = tmp
       /\ m'.ViewMode = m.ViewMode
       /\ m'.SelectedCategory = m.SelectedCategory
       /\ m'.SortOrder = m.SortOrder
       /\ m'.ShowForm = m.ShowForm
       /\ m'.ShowActions = m.ShowActions
       /\ m'.SelectedItem = m.SelectedItem
       /\ \/ m' = [m EXCEPT !.Quitting = TRUE]
          \/ m' = [m EXCEPT !.List = m'.List]
  ]_vars

\* The quit key has ended a session that was filtering the categories.
C18_Witness ==
  /\ m.Quitting
  /\ m.List.filterState = "filtering"
  /\ m.ViewMode = "categories"
  /\ m.SortOrder = "desc"

EffectiveCategory(p) ==
  IF p.Category = <<>> THEN Uncategorized ELSE p.Category

\* C20: grouping treats an empty category as "Uncategorized": the groups
\* ListProjects prints and the category items InitialModel builds are
\* exactly the distinct effective categories in ascending name order, each
\* with the number (for ListProjects the config-ordered list) of projects
\* of that effective category; categories "" and "work" give Uncategorized
\* (1 project) and work (1 project).
C20_GroupsByEffectiveCategory ==
  LET config == Persisted(file)
      cats == { EffectiveCategory(config[i]) : i \in DOMAIN config }
      members(c) == { i \in DOMAIN config : EffectiveCategory(config[i]) = c }
  IN /\ call.op = "list" =>
          IF config = <<>>
          THEN out = << [msg |-> "No projects found"] >>
          ELSE /\ Len(out) = Cardinality(cats)
               /\ { out[g].category : g \in DOMAIN out } = cats
               /\ \A g, h \in DOMAIN out :
                    g < h => StrLess(out[g].category, out[h].category)
               /\ \A g \in DOMAIN out :
                    LET ps == out[g].projects
                        of == members(out[g].category)
                    IN /\ Len(ps) = Cardinality(of)
                       /\ \A k \in DOMAIN ps :
                            \E i \in of :
                              /\ Cardinality({ j \in of : j < i }) = k - 1
                              /\ ps[k] = [Name |-> config[i].Name,
                                          Path |-> config[i].Path]
               /\ (/\ Len(config) = 2
                   /\ config[1].Category = <<>>
                   /\ config[2].Category = work) =>
                    /\ Len(out) = 2
                    /\ out[1].category = Uncategorized
                    /\ Len(out[1].projects) = 1
                    /\ out[2].category = work
                    /\ Len(out[2].projects) = 1
     /\ call.op = "interactive" =>
          LET items == m.CategoryItems
          IN /\ Len(items) = Cardinality(cats)
             /\ { items[g].Name : g \in DOMAIN items } = cats
             /\ \A g, h \in DOMAIN items :
                  g < h => StrLess(items[g].Name, items[h].Name)
             /\ \A g \in DOMAIN items :
                  items[g].Count = Cardinality(members(items[g].Name))
             /\ Len(m.ProjectItems) = Len(config)

\* A listing of three projects in two groups: one without category and one
\* stored as Uncategorized share a group, listed in config order.
C20_Witness ==
  /\ call.op = "list"
  /\ Len(Persisted(file)) = 3
  /\ Len(out) = 2
  /\ out[1].category = Uncategorized
  /\ Len(out[1].projects) = 2
  /\ \E i, j \in DOMAIN Persisted(file) :
       /\ i < j
       /\ Persisted(file)[i].Category = Uncategorized
       /\ Persisted(file)[j].Category = <<>>
  /\ out[2].category = work

\* ------------------------------------------------------------------------
\* Properties of scrolling and rendering the ActionView
\* ------------------------------------------------------------------------
\* C21: in the ActionView, page-down moves the scroll position down and
\* page-up moves it up by half the visible height H (the number of content
\* lines the view displays, the H of the clamping), and page-up stops at 0.
C21_PageMovesHalfVisibleHeight ==
  (InActions /\ VisibleHeight(m) >= 0) =>
    LET half == VisibleHeight(m) \div 2
    IN /\ ActPgDownKey(m).ScrollOffset = m.ScrollOffset + half
       /\ ActPgUpKey(m).ScrollOffset =
            (IF m.ScrollOffset >= half THEN m.ScrollOffset - half ELSE 0)

\* C22: in the ActionView, home sets the scroll position to 0 and end sets
\* it to the lower bound max(0, L - H) for content of any length L, so a
\* single up key right after end moves the displayed window up by one line
\* whenever L - H >= 1 (max(0, L - H) is View's maxStartLine).
C22_HomeEndJumpToBounds ==
  InActions =>
    /\ ActHomeKey(m).ScrollOffset = 0
    /\ ActEndKey(m).ScrollOffset = MaxStartLine(m, lines)
    /\ lines - VisibleHeight(m) >= 1 =>
         StartLine(ActUpKey(ActEndKey(m)), lines)
           = StartLine(ActEndKey(m), lines) - 1

\* C30: rendering the ActionView never slices out of range: for every
\* window height (an unknown height 0 and the small heights 1..5, where
\* WindowHeight - 6 is negative, included), every content length and every
\* ScrollOffset the window satisfies 0 <= startLine <= endLine <= len(lines).
C30_ViewSliceInRange ==
  (~m.Quitting /\ ~m.ShowForm /\ m.ShowActions) =>
    /\ 0 <= StartLine(m, lines)
    /\ StartLine(m, lines) <= EndLine(m, lines)
    /\ EndLine(m, lines) <= lines

\* ------------------------------------------------------------------------
\* pkg/fs/scanner.go: strings and filepath helpers
\* ------------------------------------------------------------------------
UpperUnits ==
  << "A", "B", "C", "D", "E", "F", "G", "H", "I", "J", "K", "L", "M", "N",
     "O", "P", "Q", "R", "S", "T", "U", "V", "W", "X", "Y", "Z" >>

LowerUnits ==
  << "a", "b", "c", "d", "e", "f", "g", "h", "i", "j", "k", "l", "m", "n",
     "o", "p", "q", "r", "s", "t", "u", "v", "w", "x", "y", "z" >>

\* strings.ToLower on one unit.
ToLowerUnit(c) ==
  IF \E i \in DOMAIN UpperUnits : UpperUnits[i] = c
  THEN LowerUnits[CHOOSE i \in DOMAIN UpperUnits : UpperUnits[i] = c]
  ELSE c

ToLower(str) == [i \in DOMAIN str |-> ToLowerUnit(str[i])]

\* strings.EqualFold on the units of the model.
EqualFold(s, t) ==
  /\ Len(s) = Len(t)
  /\ \A i \in DOMAIN s : ToLowerUnit(s[i]) = ToLowerUnit(t[i])

HasSuffix(s, suffix) ==
  /\ Len(s) >= Len(suffix)
  /\ SubSeq(s, Len(s) - Len(suffix) + 1, Len(s)) = suffix

\* filepath.Base of a cleaned path: its last element.
Base(path) ==
  LET comps == SplitPath(path, <<>>)
  IN IF path = <<>> THEN << "." >>
     ELSE IF comps[Len(comps)] = <<>> THEN << "/" >>
     ELSE comps[Len(comps)]

\* filepath.Ext: the suffix from the last dot of the last element on.
Ext(name) ==
  LET dots == { i \in DOMAIN name :
                  /\ name[i] = "."
                  /\ \A j \in i..Len(name) : name[j] # "/" }
  IN IF dots = {} THEN <<>>
     ELSE SubSeq(name, CHOOSE i \in dots : \A j \in dots : j <= i, Len(name))

\* ------------------------------------------------------------------------
\* ShouldExclude
\* ------------------------------------------------------------------------
excludeDirs ==
  << << "n", "o", "d", "e", "_", "m", "o", "d", "u", "l", "e", "s" >>,
     << ".", "g", "i", "t" >>,
     << ".", "i", "d", "e", "a" >>,
     << ".", "v", "s", "c", "o", "d", "e" >>,
     << "_", "_", "p", "y", "c", "a", "c", "h", "e", "_", "_" >>,
     << "d", "i", "s", "t" >>,
     << "b", "u", "i", "l", "d" >>,
     << "t", "a", "r", "g", "e", "t" >>,
     << "b", "i", "n" >>,
     << "o", "b", "j" >>,
     << ".", "n", "e", "x", "t" >>,
     << ".", "n", "u", "x", "t" >>,
     << ".", "D", "S", "_", "S", "t", "o", "r", "e" >>,
     << "v", "e", "n", "d", "o", "r" >>,
     << "c", "o", "v", "e", "r", "a", "g", "e" >>,
     << ".", "g", "r", "a", "d", "l", "e" >>,
     << ".", "m", "v", "n" >>,
     << ".", "c", "a", "c", "h", "e" >>,
     << ".", "n", "p", "m" >>,
     << ".", "y", "a", "r", "n" >>,
     << "v", "e", "n", "v" >>,
     << "e", "n", "v" >>,
     << ".", "e", "n", "v" >>,
     << ".", "p", "y", "t", "e", "s", "t", "_", "c", "a", "c", "h", "e" >> >>

binaryExts ==
  << << ".", "e", "x", "e" >>,
     << ".", "d", "l", "l" >>,
     << ".", "s", "o" >>,
     << ".", "d", "y", "l", "i", "b" >>,
     << ".", "o" >>,
     << ".", "o", "b", "j" >>,
     << ".", "a" >>,
     << ".", "l", "i", "b" >>,
     << ".", "b", "i", "n" >>,
     << ".", "d", "a", "t" >>,
     << ".", "d", "b" >>,
     << ".", "s", "q", "l", "i", "t", "e" >>,
     << ".", "c", "l", "a", "s", "s" >> >>

\* An exclusion policy that lets dot-prefixed entries through.
ShouldExcludeByTableOnly(path) ==
  \/ \E i \in DOMAIN excludeDirs : EqualFold(Base(path), excludeDirs[i])
  \/ \E i \in DOMAIN binaryExts : HasSuffix(ToLower(path), binaryExts[i])

ShouldExclude(path) ==
  LET base == Base(path)
      lowered == ToLower(path)
  IN \/ \E i \in DOMAIN excludeDirs : EqualFold(base, excludeDirs[i])
     \/ HasPrefix(base, ".")
     \/ \E i \in DOMAIN binaryExts : HasSuffix(lowered, binaryExts[i])

\* ------------------------------------------------------------------------
\* The directory tree ScanDirectory reads
\* ------------------------------------------------------------------------
\* A file system is the scanned project directory (root), a set of entries
\* (each the child name of the directory dir), the directories os.ReadDir
\* fails on (denied) and the entries whose Info fails because they went
\* away after the listing (stale).
DirEntry(dir, name, isDir, size) ==
  [dir |-> dir, name |-> name, isDir |-> isDir, size |-> size]

\* The path of an entry: its name in its directory.
PathOf(e) == e.dir \o << "/" >> \o e.name

\* os.ReadDir: the entries of the directory sorted by filename, or an error.
ReadDir(fs, path) ==
  LET isDirectory == \/ path = fs.root
                     \/ \E e \in fs.entries : e.isDir /\ PathOf(e) = path
      children == { e \in fs.entries : e.dir = path }
      names == SortStrings({ e.name : e \in children })
  IN IF ~isDirectory \/ path \in fs.denied
     THEN [err |-> TRUE, entries |-> <<>>]
     ELSE [err |-> FALSE,
           entries |-> [i \in DOMAIN names |->
                          CHOOSE e \in children : e.name = names[i]]]

\* FileEntry
FileEntry(path, isDir, size, extension) ==
  [Path |-> path, IsDir |-> isDir, Size |-> size, Extension |-> extension]

\* ------------------------------------------------------------------------
\* ScanDirectory
\* ------------------------------------------------------------------------
RECURSIVE ScanDirectory(_, _, _, _, _)
RECURSIVE ScanEntries(_, _, _, _, _, _)

\* The loop over the entries of one directory.
ScanEntries(fs, entries, rootPath, maxDepth, currentDepth, prefix) ==
  IF entries = <<>> THEN <<>>
  ELSE
    LET entry == entries[1]
        path == Join(rootPath, entry.name)
        rest == ScanEntries(fs, Tail(entries), rootPath, maxDepth,
                            currentDepth, prefix)
        ext == IF ~entry.isDir THEN ToLower(Ext(entry.name)) ELSE <<>>
        subEntries ==
          IF entry.isDir
          THEN ScanDirectory(fs, path, maxDepth, currentDepth + 1,
                             prefix \o entry.name \o << "/" >>)
          ELSE <<>>
    IN IF ShouldExclude(path) THEN rest
       ELSE IF path \in fs.stale THEN rest
       ELSE << FileEntry(prefix \o entry.name, entry.isDir, entry.size, ext) >>
            \o subEntries \o rest

\* ScanDirectory(rootPath, maxDepth, currentDepth, prefix) over the file
\* system fs.
ScanDirectory(fs, rootPath, maxDepth, currentDepth, prefix) ==
  IF maxDepth > 0 /\ currentDepth > maxDepth THEN <<>>
  ELSE LET rd == ReadDir(fs, rootPath)
       IN IF rd.err THEN <<>>
          ELSE ScanEntries(fs, rd.entries, rootPath, maxDepth,
                           currentDepth, prefix)

\* ------------------------------------------------------------------------
\* Scanning project directories
\* ------------------------------------------------------------------------
ProjectDir == << "/", "p" >>

\* The entries the scanned trees are made of: excluded directories with
\* content, names differing from the tables in case, a hidden file, source
\* files and a chain of directories four levels deep.
Universe ==
  {
    DirEntry(ProjectDir, << ".", "g", "i", "t" >>, TRUE, 0),
    DirEntry(ProjectDir, << "n", "o", "d", "e", "_", "m", "o", "d", "u", "l", "e", "s" >>, TRUE, 0),
    DirEntry(ProjectDir, << "m", "a", "i", "n", ".", "g", "o" >>, FALSE, 3),
    DirEntry(ProjectDir, << "a" >>, TRUE, 0),
    DirEntry(ProjectDir, << "B", "i", "n" >>, TRUE, 0),
    DirEntry(ProjectDir, << "x", ".", "S", "O" >>, FALSE, 2),
    DirEntry(ProjectDir, << ".", "x" >>, FALSE, 1),
    DirEntry(ProjectDir, << "e", "n", "v" >>, FALSE, 1),
    DirEntry(ProjectDir \o << "/", "n", "o", "d", "e", "_", "m", "o", "d", "u", "l", "e", "s" >>, << "k", ".", "j", "s" >>, FALSE, 1),
    DirEntry(ProjectDir \o << "/", "B", "i", "n" >>, << "t", ".", "g", "o" >>, FALSE, 1),
    DirEntry(ProjectDir \o << "/", "a" >>, << "b" >>, TRUE, 0),
    DirEntry(ProjectDir \o << "/", "a" >>, << "T", ".", "G", "O" >>, FALSE, 2),
    DirEntry(ProjectDir \o << "/", "a", "/", "b" >>, << "c" >>, TRUE, 0),
    DirEntry(ProjectDir \o << "/", "a", "/", "b", "/", "c" >>, << "d" >>, TRUE, 0)
  }

MaxEntries == 4
MaxDepthArg == 3

\* The sets of entries in which every entry lies in the project directory
\* or in a directory of the set.
Trees ==
  { S \in SUBSET Universe :
      /\ Cardinality(S) <= MaxEntries
      /\ \A e \in S : \/ e.dir = ProjectDir
                      \/ \E a \in S : a.isDir /\ PathOf(a) = e.dir }

\* No failure, one unreadable directory or one entry gone after the
\* listing.
Faults(S) ==
  { [denied |-> {}, stale |-> {}] }
    \cup { [denied |-> { p }, stale |-> {}] :
             p \in { ProjectDir } \cup { PathOf(e) : e \in { x \in S : x.isDir } } }
    \cup { [denied |-> {}, stale |-> { PathOf(e) }] : e \in S }

FileSystems ==
  UNION { { [root |-> ProjectDir, entries |-> S,
             denied |-> ft.denied, stale |-> ft.stale] : ft \in Faults(S) }
          : S \in Trees }

InitScan ==
  /\ file = JsonFile(EmptyConfig)
  /\ perm = {"r", "w"}
  /\ out = <<>>
  /\ call \in { [op |-> "ScanDirectory", fs |-> fs, maxDepth |-> maxDepth,
                 done |-> FALSE] :
                  fs \in FileSystems, maxDepth \in 0..MaxDepthArg }
  /\ m = NoModel
  /\ lines = 0
  /\ crashed = FALSE
  /\ scans = 0
  /\ tmp = NoFile

\* fs.ScanDirectory(projectPath, maxDepth, 0, "")
Scan ==
  /\ call.op = "ScanDirectory"
  /\ ~call.done
  /\ out' = ScanDirectory(call.fs, call.fs.root, call.maxDepth, 0, <<>>)
  /\ call' = [call EXCEPT !.done = TRUE]
  /\ UNCHANGED << file, perm, ui >>

NextScan == Scan

\* Scans of every tree, depth bound and failure.
SpecScan == InitScan /\ [][NextScan]_vars

\* ------------------------------------------------------------------------
\* Properties of the scanner
\* ------------------------------------------------------------------------
\* A scan has run: its input is in call, its result in out.
Scanned == call.op = "ScanDirectory" /\ call.done

\* The path of an entry relative to the scanned directory, and the number
\* of its components (1 for the direct children).
RelPath(fs, e) == SubSeq(PathOf(e), Len(fs.root) + 2, Len(PathOf(e)))
Level(fs, e) == Len(SplitPath(RelPath(fs, e), <<>>))

\* The path q lies beneath the directory p.
IsUnder(p, q) ==
  /\ Len(q) > Len(p)
  /\ SubSeq(q, 1, Len(p)) = p
  /\ q[Len(p) + 1] = "/"

Ancestors(fs, e) ==
  { a \in fs.entries : a.isDir /\ IsUnder(PathOf(a), PathOf(e)) }

InTable(name) == \E i \in DOMAIN excludeDirs : EqualFold(name, excludeDirs[i])
Hidden(name) == name # <<>> /\ name[1] = "."
BinaryAsListed(name) ==
  \E i \in DOMAIN binaryExts : HasSuffix(name, binaryExts[i])
BinaryAnyCase(name) ==
  \E i \in DOMAIN binaryExts : HasSuffix(ToLower(name), binaryExts[i])

\* The entry could not be read: it or a directory above it went away, or
\* a directory above it (the scanned one included) is unreadable.
Lost(fs, e) ==
  \/ fs.root \in fs.denied
  \/ PathOf(e) \in fs.stale
  \/ \E a \in Ancestors(fs, e) :
       PathOf(a) \in fs.stale \/ PathOf(a) \in fs.denied

\* What a scan result owes to the tree, for an exclusion rule on names and
\* a set of entries that must be returned.
ScanContract(fs, result, Excluded(_), Due(_)) ==
  LET kept == { e \in fs.entries :
                  /\ ~Excluded(e.name)
                  /\ \A a \in Ancestors(fs, e) : ~Excluded(a.name) }
  IN /\ \A i \in DOMAIN result :
          \E e \in kept : /\ result[i].Path = RelPath(fs, e)
                          /\ result[i].IsDir = e.isDir
     /\ \A e \in kept :
          Due(e) => \E i \in DOMAIN result : result[i].Path = RelPath(fs, e)
     /\ \A i, j \in DOMAIN result :
          result[i].Path = result[j].Path => i = j
     /\ \A i, j \in DOMAIN result :
          IsUnder(result[i].Path, result[j].Path) => i < j

\* The level the claims take for the depth bound.
WithinDepth(fs, maxDepth, e) == maxDepth = 0 \/ Level(fs, e) <= maxDepth

\* A root holding a .git folder, a node_modules folder and a source file.
ExampleRoot ==
  { DirEntry(ProjectDir, << ".", "g", "i", "t" >>, TRUE, 0),
    DirEntry(ProjectDir,
             << "n", "o", "d", "e", "_", "m", "o", "d", "u", "l", "e", "s" >>,
             TRUE, 0),
    DirEntry(ProjectDir, << "m", "a", "i", "n", ".", "g", "o" >>, FALSE, 3) }

ExampleResult ==
  << FileEntry(<< "m", "a", "i", "n", ".", "g", "o" >>, FALSE, 3,
               << ".", "g", "o" >>) >>

\* C23 as stated: ScanDirectory returns no entry whose name is in the
\* exclusion table (compared case-insensitively), begins with a dot or ends
\* in a listed binary extension, and none beneath an excluded directory;
\* every other entry within the depth bound is returned exactly once, a
\* directory before its contents; a root holding .git, node_modules and one
\* source file gives exactly that file's entry.
C23_ScanExcludesAsStated ==
  Scanned =>
    LET fs == call.fs
        AsStated(name) == InTable(name) \/ Hidden(name) \/ BinaryAsListed(name)
        Others(e) == WithinDepth(fs, call.maxDepth, e)
    IN /\ ScanContract(fs, out, AsStated, Others)
       /\ fs.entries = ExampleRoot => out = ExampleResult

\* C23, amended: the binary extensions are compared case-insensitively as
\* well, and the entries returned exactly once are those within the depth
\* bound that could be read (an unreadable directory gives none of its
\* contents, an entry gone after the listing is skipped with what is below
\* it); the example holds for a root that can be read.
C23_ScanExcludes ==
  Scanned =>
    LET fs == call.fs
        AnyCase(name) == InTable(name) \/ Hidden(name) \/ BinaryAnyCase(name)
        Readable(e) == WithinDepth(fs, call.maxDepth, e) /\ ~Lost(fs, e)
    IN /\ ScanContract(fs, out, AnyCase, Readable)
       /\ (fs.entries = ExampleRoot /\ fs.denied = {}
             /\ PathOf(CHOOSE e \in ExampleRoot : ~e.isDir) \notin fs.stale)
            => out = ExampleResult

\* A scan of a readable tree with content beneath an excluded directory,
\* returning a directory and, after it, an entry of it.
C23_Witness ==
  /\ Scanned
  /\ call.fs.denied = {} /\ call.fs.stale = {}
  /\ \E e \in call.fs.entries :
       \E a \in Ancestors(call.fs, e) : InTable(a.name)
  /\ \E i, j \in DOMAIN out : IsUnder(out[i].Path, out[j].Path)

\* The number of components of a relative path.
Components(path) == Len(SplitPath(path, <<>>))

\* C24: ScanDirectory(root, maxDepth, 0, "") with maxDepth > 0 returns no
\* entry nested deeper than maxDepth levels below root: no returned
\* relative path has more than maxDepth components (the direct children of
\* root being level 1), so the scan with max depth 3 never returns a path
\* such as a/b/c/d; with maxDepth = 0 the depth is unbounded and every
\* entry that is not excluded is returned.
C24_ScanDepthBounded ==
  Scanned =>
    /\ call.maxDepth > 0 =>
         \A i \in DOMAIN out : Components(out[i].Path) <= call.maxDepth
    /\ call.maxDepth = 3 =>
         \A i \in DOMAIN out :
           out[i].Path # << "a", "/", "b", "/", "c", "/", "d" >>
    /\ (call.maxDepth = 0 /\ call.fs.denied = {} /\ call.fs.stale = {}) =>
         \A e \in call.fs.entries :
           (\A a \in Ancestors(call.fs, e) \cup { e } :
              ~ShouldExclude(PathOf(a)))
             => \E i \in DOMAIN out : out[i].Path = RelPath(call.fs, e)

\* ------------------------------------------------------------------------
\* CountFileTypes
\* ------------------------------------------------------------------------
\* The colours of the known extensions.
extColors ==
  << [ext |-> << ".", "g", "o" >>, color |-> "#00ADD8"],
     [ext |-> << ".", "j", "s" >>, color |-> "#F7DF1E"],
     [ext |-> << ".", "t", "s" >>, color |-> "#3178C6"],
     [ext |-> << ".", "j", "s", "x" >>, color |-> "#61DAFB"],
     [ext |-> << ".", "t", "s", "x" >>, color |-> "#61DAFB"],
     [ext |-> << ".", "p", "y" >>, color |-> "#3776AB"],
     [ext |-> << ".", "j", "a", "v", "a" >>, color |-> "#ED8B00"],
     [ext |-> << ".", "h", "t", "m", "l" >>, color |-> "#E34F26"],
     [ext |-> << ".", "c", "s", "s" >>, color |-> "#1572B6"],
     [ext |-> << ".", "s", "c", "s", "s" >>, color |-> "#CD6799"],
     [ext |-> << ".", "j", "s", "o", "n" >>, color |-> "#000000"],
     [ext |-> << ".", "y", "m", "l" >>, color |-> "#CB171E"],
     [ext |-> << ".", "y", "a", "m", "l" >>, color |-> "#CB171E"],
     [ext |-> << ".", "m", "d" >>, color |-> "#083FA1"],
     [ext |-> << ".", "p", "h", "p" >>, color |-> "#777BB4"],
     [ext |-> << ".", "r", "b" >>, color |-> "#CC342D"],
     [ext |-> << ".", "c" >>, color |-> "#555555"],
     [ext |-> << ".", "c", "p", "p" >>, color |-> "#004482"],
     [ext |-> << ".", "c", "s" >>, color |-> "#239120"],
     [ext |-> << ".", "r", "s" >>, color |-> "#DEA584"],
     [ext |-> << ".", "s", "w", "i", "f", "t" >>, color |-> "#F05138"],
     [ext |-> << ".", "k", "t" >>, color |-> "#A97BFF"],
     [ext |-> << ".", "s", "h" >>, color |-> "#89E051"] >>

DefaultColor == "#AAAAAA"

ColorOf(ext) ==
  IF \E i \in DOMAIN extColors : extColors[i].ext = ext
  THEN extColors[CHOOSE i \in DOMAIN extColors : extColors[i].ext = ext].color
  ELSE DefaultColor

FileTypeCount(ext, count, color) ==
  [Extension |-> ext, Count |-> count, Color |-> color]

\* The map extCounts: the extensions of the files that have one, each with
\* the number of those files.
ExtCounts(files) ==
  LET counted == { i \in DOMAIN files :
                     ~files[i].IsDir /\ files[i].Extension # <<>> }
  IN [ext \in { files[i].Extension : i \in counted } |->
        Cardinality({ i \in counted : files[i].Extension = ext })]

\* sort.Slice by descending Count over the pairs of the map, whose range
\* order is unspecified: every order in which the counts do not increase.
RECURSIVE SortByCount(_)
SortByCount(pairs) ==
  IF pairs = {} THEN { <<>> }
  ELSE LET top == { p \in pairs : \A q \in pairs : q.Count <= p.Count }
       IN UNION { { << p >> \o rest : rest \in SortByCount(pairs \ { p }) }
                  : p \in top }

TopExtensions == 10

Truncated(result) ==
  IF Len(result) > TopExtensions THEN SubSeq(result, 1, TopExtensions)
  ELSE result

\* A count that cuts the list to ten before sorting it.
CountFileTypesCutFirst(files) ==
  LET counts == ExtCounts(files)
      pairs == { FileTypeCount(ext, counts[ext], ColorOf(ext)) :
                   ext \in DOMAIN counts }
  IN UNION { SortByCount(kept) :
               kept \in { K \in SUBSET pairs :
                            Cardinality(K) = IF Cardinality(pairs) > TopExtensions
                                             THEN TopExtensions
                                             ELSE Cardinality(pairs) } }

\* CountFileTypes(files): the results it can return.
CountFileTypes(files) ==
  LET counts == ExtCounts(files)
      pairs == { FileTypeCount(ext, counts[ext], ColorOf(ext)) :
                   ext \in DOMAIN counts }
  IN { Truncated(result) : result \in SortByCount(pairs) }

\* ------------------------------------------------------------------------
\* Counting the file types of file lists
\* ------------------------------------------------------------------------
ExtNames ==
  << << ".", "g", "o" >>,
     << ".", "j", "s" >>,
     << ".", "t", "s" >>,
     << ".", "p", "y" >>,
     << ".", "m", "d" >>,
     << ".", "c" >>,
     << ".", "r", "s" >>,
     << ".", "s", "h" >>,
     << ".", "r", "b" >>,
     << ".", "k", "t" >>,
     << ".", "c", "s" >>,
     << ".", "c", "s", "s" >>,
     << ".", "t", "x", "t" >>,
     << ".", "t", "o", "m", "l" >> >>

MaxExts == 11
MaxTies == 3

\* n files with the extension ext.
RECURSIVE FilesWith(_, _)
FilesWith(ext, n) ==
  IF n = 0 THEN <<>>
  ELSE << FileEntry(<< "f" >> \o ext, FALSE, 1, ext) >> \o FilesWith(ext, n - 1)

\* The number of files of the i-th of n extensions: one more than the next
\* extension has, or as many where ties says so.
RECURSIVE CountAt(_, _, _)
CountAt(i, n, ties) ==
  IF i = n THEN 1
  ELSE CountAt(i + 1, n, ties) + (IF i \in ties THEN 0 ELSE 1)

RECURSIVE FilesFrom(_, _, _)
FilesFrom(i, n, ties) ==
  IF i > n THEN <<>>
  ELSE FilesWith(ExtNames[i], CountAt(i, n, ties)) \o FilesFrom(i + 1, n, ties)

\* Entries CountFileTypes passes over: directories and files without an
\* extension.
Uncounted ==
  << FileEntry(<< "d", ".", "g", "o" >>, TRUE, 0, << ".", "g", "o" >>),
     FileEntry(<< "s", "r", "c" >>, TRUE, 0, <<>>),
     FileEntry(<< "f" >>, FALSE, 1, <<>>),
     FileEntry(<< "g" >>, FALSE, 1, <<>>) >>

FileLists ==
  { FilesFrom(1, n, ties) \o extra :
      n \in 0..MaxExts,
      ties \in { T \in SUBSET (1..(MaxExts - 1)) :
                  Cardinality(T) <= MaxTies },
      extra \in { <<>>, Uncounted } }

InitCount ==
  /\ file = JsonFile(EmptyConfig)
  /\ perm = {"r", "w"}
  /\ out = <<>>
  /\ call \in { [op |-> "CountFileTypes", files |-> files, done |-> FALSE] :
                  files \in FileLists }
  /\ m = NoModel
  /\ lines = 0
  /\ crashed = FALSE
  /\ scans = 0
  /\ tmp = NoFile

\* fs.CountFileTypes(files)
Count ==
  /\ call.op = "CountFileTypes"
  /\ ~call.done
  /\ out' \in CountFileTypes(call.files)
  /\ call' = [call EXCEPT !.done = TRUE]
  /\ UNCHANGED << file, perm, ui >>

NextCount == Count

\* Counts of file lists with up to MaxExts extensions.
SpecCount == InitCount /\ [][NextCount]_vars

\* A count has run: its input is in call, its result in out.
Counted == call.op = "CountFileTypes" /\ call.done

\* The extensions of the non-directory entries of the list, and the number
\* of those entries having the extension.
ExtensionsOf(files) ==
  { files[i].Extension : i \in { k \in DOMAIN files :
                                  ~files[k].IsDir /\ files[k].Extension # <<>> } }

HavingExtension(files, ext) ==
  Cardinality({ i \in DOMAIN files :
                  ~files[i].IsDir /\ files[i].Extension = ext })

\* C25: CountFileTypes returns at most 10 (extension, count) pairs with
\* pairwise distinct extensions, in non-increasing order of count; each
\* count is the number of non-directory entries of the input having that
\* extension, and no extension left out of the result has a strictly
\* larger count than one that is included.
C25_TopTenByCount ==
  Counted =>
    LET files == call.files
        included == { out[i].Extension : i \in DOMAIN out }
    IN /\ Len(out) <= 10
       /\ \A i, j \in DOMAIN out : out[i].Extension = out[j].Extension => i = j
       /\ \A i, j \in DOMAIN out : i < j => out[i].Count >= out[j].Count
       /\ \A i \in DOMAIN out :
            /\ out[i].Extension \in ExtensionsOf(files)
            /\ out[i].Count = HavingExtension(files, out[i].Extension)
       /\ \A ext \in ExtensionsOf(files) \ included :
            \A i \in DOMAIN out : HavingExtension(files, ext) <= out[i].Count

\* A list with more than ten extensions, directories and files without
\* extension, where an extension left out has as many files as one included.
C25_Witness ==
  /\ Counted
  /\ Cardinality(ExtensionsOf(call.files)) > 10
  /\ Len(out) = 10
  /\ \E i \in DOMAIN call.files : call.files[i].IsDir
  /\ \E ext \in ExtensionsOf(call.files) :
       /\ \A i \in DOMAIN out : out[i].Extension # ext
       /\ HavingExtension(call.files, ext) = out[10].Count

\* ------------------------------------------------------------------------
\* scanDependencies (project health)
\* ------------------------------------------------------------------------
\* A project directory is a function from the names of its files to their
\* content: whether os.ReadFile succeeds, and the text as a sequence of
\* the fragments the scan looks for (requirements.txt: of lines).
ProjectFile(readable, data) == [readable |-> readable, data |-> data]

\* os.Stat(filepath.Join(projectPath, file)) returns no error.
StatOk(dir, f) == f \in DOMAIN dir

\* strings.Count of a fragment in a text.
CountIn(data, fragment) ==
  Cardinality({ i \in DOMAIN data : data[i] = fragment })

\* The map literal packageFiles, in the order it is written.
packageFiles ==
  << [file |-> "package.json", manager |-> "npm"],
     [file |-> "go.mod", manager |-> "go"],
     [file |-> "requirements.txt", manager |-> "pip"],
     [file |-> "Gemfile", manager |-> "bundler"],
     [file |-> "pom.xml", manager |-> "maven"],
     [file |-> "build.gradle", manager |-> "gradle"],
     [file |-> "Cargo.toml", manager |-> "cargo"] >>

lockFiles ==
  { "package-lock.json", "yarn.lock", "go.sum", "Gemfile.lock",
    "poetry.lock", "Cargo.lock" }

NoManager == ""

\* The range loop over packageFiles stops at the first manifest it finds;
\* the order in which a map is ranged over is unspecified, so every
\* manifest present can be the first one tried.
DetectedManagers(dir) ==
  LET found == { i \in DOMAIN packageFiles : StatOk(dir, packageFiles[i].file) }
  IN IF found = {} THEN { NoManager }
     ELSE { packageFiles[i].manager : i \in found }

\* The counts of the switch on the package manager.
DepCounts(dir, manager) ==
  LET zero == [TotalDeps |-> 0, OutdatedDeps |-> 0, Vulnerabilities |-> 0]
      read(f) == StatOk(dir, f) /\ dir[f].readable
  IN CASE manager = "npm" ->
            IF read("package.json")
            THEN LET total == CountIn(dir["package.json"].data, "\"dependencies\"")
                                + CountIn(dir["package.json"].data,
                                          "\"devDependencies\"")
                 IN [TotalDeps |-> total,
                     OutdatedDeps |-> total \div 10,
                     Vulnerabilities |->
                       IF /\ read("package-lock.json")
                          /\ CountIn(dir["package-lock.json"].data,
                                     "\"vulnerabilities\"") > 0
                       THEN 1 ELSE 0]
            ELSE zero
       [] manager = "go" ->
            IF read("go.mod")
            THEN LET total == CountIn(dir["go.mod"].data, "require ")
                                + CountIn(dir["go.mod"].data, "// indirect")
                 IN [TotalDeps |-> total, OutdatedDeps |-> total \div 8,
                     Vulnerabilities |-> 0]
            ELSE zero
       [] manager = "pip" ->
            IF read("requirements.txt")
            THEN LET data == dir["requirements.txt"].data
                     total == Cardinality({ i \in DOMAIN data :
                                /\ TrimSpace(data[i]) # <<>>
                                /\ ~HasPrefix(TrimSpace(data[i]), "#") })
                 IN [TotalDeps |-> total, OutdatedDeps |-> total \div 5,
                     Vulnerabilities |-> 0]
            ELSE zero
       [] OTHER ->
            [TotalDeps |-> 10, OutdatedDeps |-> 2, Vulnerabilities |-> 0]

\* scanDependencies(projectPath): the DependencyStatus values it can return.
scanDependencies(dir) ==
  { [HasLockFile |-> \E f \in lockFiles : StatOk(dir, f),
     PackageManager |-> manager,
     TotalDeps |-> DepCounts(dir, manager).TotalDeps,
     OutdatedDeps |-> DepCounts(dir, manager).OutdatedDeps,
     Vulnerabilities |-> DepCounts(dir, manager).Vulnerabilities] :
      manager \in DetectedManagers(dir) }

\* ------------------------------------------------------------------------
\* Scanning the dependencies of project directories
\* ------------------------------------------------------------------------
MaxDepScans == 2

\* The content a file of the scanned directories has.
ContentOf(f) ==
  CASE f = "package.json" ->
         << "{", "\"dependencies\"", "\"devDependencies\"", "}" >>
    [] f = "package-lock.json" -> << "{", "\"vulnerabilities\"", "}" >>
    [] f = "go.mod" -> << "module m", "require ", "// indirect" >>
    [] f = "requirements.txt" ->
         << << "a" >>, <<>>, << " ", "#", "x" >>, << "b", " " >> >>
    [] OTHER -> <<>>

\* Directories with every mix of manifests, with no lock file or one, all
\* files readable or none.
DepDirs ==
  { [f \in manifests \cup locks |-> ProjectFile(readable, ContentOf(f))] :
      manifests \in SUBSET { packageFiles[i].file : i \in DOMAIN packageFiles },
      locks \in { {}, { "package-lock.json" }, { "go.sum" } },
      readable \in BOOLEAN }

InitDeps ==
  /\ file = JsonFile(EmptyConfig)
  /\ perm = {"r", "w"}
  /\ out = <<>>
  /\ call \in { [op |-> "scanDependencies", dir |-> dir, n |-> 0] :
                  dir \in DepDirs }
  /\ m = NoModel
  /\ lines = 0
  /\ crashed = FALSE
  /\ scans = 0
  /\ tmp = NoFile

\* One more scanDependencies(projectPath) of the directory, which has not
\* changed.
ScanDeps ==
  /\ call.op = "scanDependencies"
  /\ call.n < MaxDepScans
  /\ \E status \in scanDependencies(call.dir) : out' = << status >>
  /\ call' = [call EXCEPT !.n = call.n + 1]
  /\ UNCHANGED << file, perm, ui >>

NextDeps == ScanDeps

\* Repeated dependency scans of a directory.
SpecDeps == InitDeps /\ [][NextDeps]_vars

\* The managers of the claim's priority order.
PriorityOrder ==
  << "npm", "go", "pip", "bundler", "maven", "gradle", "cargo" >>

ManifestOf(manager) ==
  CASE manager = "npm" -> "package.json"
    [] manager = "go" -> "go.mod"
    [] manager = "pip" -> "requirements.txt"
    [] manager = "bundler" -> "Gemfile"
    [] manager = "maven" -> "pom.xml"
    [] manager = "gradle" -> "build.gradle"
    [] manager = "cargo" -> "Cargo.toml"

\* C26: when manifest files of several ecosystems are present,
\* scanDependencies reports the package manager that comes first in the
\* order npm, go, pip, bundler, maven, gradle, cargo (package.json with
\* go.mod always gives npm), and two scans of the same unchanged directory
\* report the same package manager.
C26_ManagerByPriority ==
  [][(call.op = "scanDependencies" /\ call'.n = call.n + 1) =>
       LET present == { i \in DOMAIN PriorityOrder :
                          ManifestOf(PriorityOrder[i]) \in DOMAIN call.dir }
       IN /\ present # {} =>
               out'[1].PackageManager =
                 PriorityOrder[CHOOSE i \in present : \A j \in present : i <= j]
          /\ call.n >= 1 => out'[1].PackageManager = out[1].PackageManager]_vars

\* ------------------------------------------------------------------------
\* CheckGitStatus (Git probe)
\* ------------------------------------------------------------------------
\* strings.Split(s, "\n"): the runs between the separators.
RECURSIVE SplitLines(_, _)
SplitLines(s, cur) ==
  IF s = <<>> THEN << cur >>
  ELSE IF s[1] = "\n" THEN << cur >> \o SplitLines(Tail(s), <<>>)
  ELSE SplitLines(Tail(s), Append(cur, s[1]))

IsSpace(c) == c \in { " ", "\t", "\n", "\r" }

\* strings.Fields: the runs of units that are not white space.
RECURSIVE Fields(_, _)
Fields(s, cur) ==
  IF s = <<>> THEN (IF cur = <<>> THEN <<>> ELSE << cur >>)
  ELSE IF IsSpace(s[1])
       THEN (IF cur = <<>> THEN <<>> ELSE << cur >>) \o Fields(Tail(s), <<>>)
       ELSE Fields(Tail(s), Append(cur, s[1]))

\* strings.Contains
Contains(s, substr) ==
  \E i \in 1..(Len(s) - Len(substr) + 1) :
    SubSeq(s, i, i + Len(substr) - 1) = substr

FetchMark == << "(", "f", "e", "t", "c", "h", ")" >>
PushMark == << "(", "p", "u", "s", "h", ")" >>

\* The loop over the lines of the listing: remoteMap after the lines.
RECURSIVE RemoteMap(_, _)
RemoteMap(lns, remoteMap) ==
  IF lns = <<>> THEN remoteMap
  ELSE LET line == lns[1]
           parts == Fields(line, <<>>)
       IN IF line # <<>> /\ Len(parts) >= 2
             /\ Contains(line, FetchMark)
          THEN RemoteMap(Tail(lns),
                         [n \in DOMAIN remoteMap \cup { parts[1] } |->
                            IF n = parts[1] THEN parts[2] ELSE remoteMap[n]])
          ELSE RemoteMap(Tail(lns), remoteMap)

\* The orders a range loop can visit the keys of a map in.
RECURSIVE RangeOrders(_)
RangeOrders(keys) ==
  IF keys = {} THEN { <<>> }
  ELSE UNION { { << k >> \o rest : rest \in RangeOrders(keys \ { k }) }
               : k \in keys }

GitRemote(name, url) == [Name |-> name, URL |-> url]
GitInfo(hasGit, remotes) == [HasGit |-> hasGit, Remotes |-> remotes]

EmptyMap == [n \in {} |-> <<>>]

\* CheckGitStatus(projectPath): the GitInfo values it can return for a
\* project whose .git entry exists or not (gitDir; any os.Stat outcome
\* other than not-exist counts as present) and whose "git remote -v" fails
\* (cmdErr) or prints output.
CheckGitStatus(repo) ==
  IF repo.gitDir = "absent" THEN { GitInfo(FALSE, <<>>) }
  ELSE IF repo.cmdErr THEN { GitInfo(TRUE, <<>>) }
  ELSE LET remoteMap == RemoteMap(SplitLines(repo.output, <<>>), EmptyMap)
       IN { GitInfo(TRUE, [i \in DOMAIN order |->
                            GitRemote(order[i], remoteMap[order[i]])]) :
              order \in RangeOrders(DOMAIN remoteMap) }

\* ------------------------------------------------------------------------
\* Probing the Git state of projects
\* ------------------------------------------------------------------------
MaxRemoteLines == 3

RemoteNames == { << "o" >>, << "u", "p" >> }
\* URLs: two plain ones, a local path with a space in it and one with the
\* text (fetch) in it.
RemoteURLs ==
  { << "h", ":", "a" >>, << "h", ":", "b" >>,
    << "/", "m", "y", " ", "r" >>,
    << "/" >> \o FetchMark }

\* The lines "git remote -v" prints: name, tab, URL, space, (fetch) or
\* (push); and an empty line.
RemoteLines ==
  { n \o << "\t" >> \o url \o << " " >> \o mark :
      n \in RemoteNames, url \in RemoteURLs, mark \in { FetchMark, PushMark } }
    \cup { <<>> }

RECURSIVE Listings(_)
Listings(n) ==
  IF n = 0 THEN { <<>> }
  ELSE Listings(n - 1)
         \cup { l \o line \o << "\n" >> :
                  l \in { x \in Listings(n - 1) :
                            Len(SplitLines(x, <<>>)) = n },
                  line \in RemoteLines }

Repos ==
  { [gitDir |-> "absent", cmdErr |-> TRUE, output |-> <<>>],
    [gitDir |-> "present", cmdErr |-> TRUE, output |-> <<>>] }
    \cup { [gitDir |-> "present", cmdErr |-> FALSE, output |-> o] :
             o \in Listings(MaxRemoteLines) }

InitGit ==
  /\ file = JsonFile(EmptyConfig)
  /\ perm = {"r", "w"}
  /\ out = <<>>
  /\ call \in { [op |-> "CheckGitStatus", repo |-> repo, done |-> FALSE] :
                  repo \in Repos }
  /\ m = NoModel
  /\ lines = 0
  /\ crashed = FALSE
  /\ scans = 0
  /\ tmp = NoFile

\* fs.CheckGitStatus(projectPath)
CheckGit ==
  /\ call.op = "CheckGitStatus"
  /\ ~call.done
  /\ \E info \in CheckGitStatus(call.repo) : out' = << info >>
  /\ call' = [call EXCEPT !.done = TRUE]
  /\ UNCHANGED << file, perm, ui >>

NextGit == CheckGit

\* Probes of repositories with every listing of up to MaxRemoteLines lines.
SpecGit == InitGit /\ [][NextGit]_vars

\* A probe has run: its input is in call, its result in out[1].
Probed == call.op = "CheckGitStatus" /\ call.done

\* The (fetch) lines of a listing, as name and URL, in the order printed.
FetchLines(output) ==
  LET lns == SplitLines(output, <<>>)
      idx == { i \in DOMAIN lns :
                 /\ Len(lns[i]) > Len(FetchMark)
                 /\ SubSeq(lns[i], Len(lns[i]) - Len(FetchMark) + 1,
                           Len(lns[i])) = FetchMark }
  IN [i \in idx |->
        LET body == SubSeq(lns[i], 1, Len(lns[i]) - Len(FetchMark) - 1)
            tab == CHOOSE k \in DOMAIN body : body[k] = "\t"
        IN [name |-> SubSeq(body, 1, tab - 1),
            url |-> SubSeq(body, tab + 1, Len(body))]]

\* C27: CheckGitStatus returns HasGit false and no remotes when the project
\* has no .git entry; otherwise HasGit is true and the remotes hold exactly
\* one entry per distinct remote name occurring in the (fetch) lines of the
\* listing, with the URL of the last such line of that name; push-only
\* lines contribute nothing, and when the git command fails the remotes
\* are empty while HasGit stays true.
C27_RemotesByFetchLines ==
  Probed =>
    LET repo == call.repo
        info == out[1]
        fetch == FetchLines(repo.output)
        names == { fetch[i].name : i \in DOMAIN fetch }
    IN /\ repo.gitDir = "absent" => (~info.HasGit /\ info.Remotes = <<>>)
       /\ repo.gitDir # "absent" => info.HasGit
       /\ (repo.gitDir # "absent" /\ repo.cmdErr) => info.Remotes = <<>>
       /\ (repo.gitDir # "absent" /\ ~repo.cmdErr) =>
            /\ { info.Remotes[i].Name : i \in DOMAIN info.Remotes } = names
            /\ \A i, j \in DOMAIN info.Remotes :
                 info.Remotes[i].Name = info.Remotes[j].Name => i = j
            /\ \A i \in DOMAIN info.Remotes :
                 LET last == CHOOSE k \in DOMAIN fetch :
                               /\ fetch[k].name = info.Remotes[i].Name
                               /\ \A l \in DOMAIN fetch :
                                    fetch[l].name = fetch[k].name => l <= k
                 IN info.Remotes[i].URL = fetch[last].url

\* ------------------------------------------------------------------------
\* Start-up and concurrent invocations of the command surface
\* ------------------------------------------------------------------------
\* InitConfig that writes the empty config on every start-up.
InitConfigAlwaysSaves(f, pm) == SaveConfig(f, pm, EmptyConfig)

\* config.InitConfig: writes the empty config when Stat finds no file.
InitConfig(f, pm) ==
  IF f.kind = "absent"
  THEN SaveConfig(f, pm, EmptyConfig)
  ELSE [file |-> f, msgs |-> <<>>]

\* AddProject up to its call of SaveConfig: the config it goes on to save.
AddProjectLoaded(f, pm, name, path, category) ==
  LET ld == LoadConfig(f, pm)
      config == ld.config
      absPath == Abs(ExpandTilde(path))
      i == FirstIndex(config, name)
      entry == Project(name, absPath, category)
  IN [config |-> IF i # 0 THEN [config EXCEPT ![i] = entry]
                 ELSE Append(config, entry),
      save |-> TRUE,
      out |-> LoadMsgs(ld)]

\* RemoveProject up to its call of SaveConfig, which it makes only when
\* the name was found.
RemoveProjectLoaded(f, pm, name) ==
  LET ld == LoadConfig(f, pm)
      config == ld.config
      i == FirstIndex(config, name)
  IN [config |-> IF i # 0 THEN RemoveAt(config, i) ELSE config,
      save |-> i # 0,
      out |-> LoadMsgs(ld)
              \o IF i # 0 THEN <<>>
                 ELSE << [msg |-> "Project not found", name |-> name] >>]

\* What an invocation prints after its SaveConfig call.
DoneMsgs(cmd, before) ==
  IF cmd.op = "remove"
  THEN << [msg |-> "Removed project", name |-> cmd.name] >>
  ELSE << [msg |-> IF FirstIndex(before, cmd.name) # 0
                   THEN "Updated project" ELSE "Added project",
           name |-> cmd.name, path |-> Abs(ExpandTilde(cmd.path)),
           category |-> cmd.category] >>

MaxProcs == 2

Procs == 1..MaxProcs

other == << "b" >>

RaceNames == { demo, other }

Commands ==
  { [op |-> "add", name |-> n, path |-> tildeCodeDemo, category |-> work] :
      n \in RaceNames }
  \cup { [op |-> "remove", name |-> n] : n \in RaceNames }

StartFiles ==
  { NoFile, JsonFile(EmptyConfig),
    JsonFile(<< Project(demo, cwdX, <<>>) >>) }

\* Each process is one invocation of the binary: InitConfig, then the
\* load half and the save half of its command.
InitRace ==
  /\ file \in StartFiles
  /\ perm = {"r", "w"}
  /\ out = <<>>
  /\ call \in { [op |-> "race", last |-> 0,
                 procs |-> [p \in Procs |->
                              [cmd |-> cmds[p], pc |-> "start",
                               config |-> EmptyConfig, before |-> EmptyConfig]]]
                : cmds \in [Procs -> Commands] }
  /\ m = NoModel
  /\ lines = 0
  /\ crashed = FALSE
  /\ scans = 0
  /\ tmp = NoFile

RaceStart(p) ==
  LET r == InitConfig(file, perm)
  IN /\ call.procs[p].pc = "start"
     /\ file' = r.file
     /\ out' = r.msgs
     /\ call' = [call EXCEPT !.procs[p].pc = "ready"]
     /\ UNCHANGED << perm, ui >>

RaceLoad(p) ==
  LET cmd == call.procs[p].cmd
      r == IF cmd.op = "add"
           THEN AddProjectLoaded(file, perm, cmd.name, cmd.path,
                                 cmd.category)
           ELSE RemoveProjectLoaded(file, perm, cmd.name)
  IN /\ call.procs[p].pc = "ready"
     /\ out' = r.out
     /\ call' = [call EXCEPT
                   !.procs[p].pc = IF r.save THEN "loaded" ELSE "done",
                   !.procs[p].config = r.config,
                   !.procs[p].before = LoadConfig(file, perm).config]
     /\ UNCHANGED << file, perm, ui >>

RaceSave(p) ==
  LET me == call.procs[p]
      sv == SaveConfig(file, perm, me.config)
  IN /\ me.pc = "loaded"
     /\ file' = sv.file
     /\ out' = sv.msgs \o DoneMsgs(me.cmd, me.before)
     /\ call' = [call EXCEPT !.procs[p].pc = "done", !.last = p]
     /\ UNCHANGED << perm, ui >>

RaceStartAny == \E p \in Procs : RaceStart(p)
RaceLoadAny == \E p \in Procs : RaceLoad(p)
RaceSaveAny == \E p \in Procs : RaceSave(p)

NextRace == RaceStartAny \/ RaceLoadAny \/ RaceSaveAny

SpecRace == InitRace /\ [][NextRace]_vars

\* ------------------------------------------------------------------------
\* Properties of concurrent invocations
\* ------------------------------------------------------------------------
Racing == call.op = "race"

AllDone == Racing /\ \A p \in Procs : call.procs[p].pc = "done"

NamesIn(config) == { config[i].Name : i \in DOMAIN config }

\* C28: when the concurrent add and remove invocations have all finished
\* and at least one of them saved, the persisted config is the in-memory
\* config of the invocation that saved last, whatever the others saved
\* before it.
C28_LastWriterWins ==
  (AllDone /\ call.last # 0)
    => Persisted(file) = call.procs[call.last].config

\* Lost update: two invocations added different names to the same loaded
\* config, both saved, and the name added by the first saver is gone.
C28_Witness ==
  /\ AllDone
  /\ \E p, q \in Procs :
       /\ call.last = q
       /\ call.procs[p].cmd.op = "add"
       /\ call.procs[q].cmd.op = "add"
       /\ call.procs[p].cmd.name # call.procs[q].cmd.name
       /\ call.procs[p].cmd.name \notin NamesIn(Persisted(file))
       /\ call.procs[q].cmd.name \in NamesIn(Persisted(file))

\* A project that one invocation found and removed is persisted again by
\* the add of another name that saved last.
RemovedReappears ==
  /\ AllDone
  /\ \E p, q \in Procs :
       /\ call.last = q
       /\ call.procs[p].cmd.op = "remove"
       /\ call.procs[p].cmd.name \in NamesIn(call.procs[p].before)
       /\ call.procs[q].cmd.op = "add"
       /\ call.procs[q].cmd.name # call.procs[p].cmd.name
       /\ call.procs[p].cmd.name \in NamesIn(Persisted(file))

\* ------------------------------------------------------------------------
\* Successive invocations, each starting with InitConfig
\* ------------------------------------------------------------------------
\* main: InitApp runs InitConfig before any command is dispatched.
Startup ==
  LET r == InitConfig(file, perm)
  IN /\ call.op # "startup"
     /\ file' = r.file
     /\ out' = r.msgs
     /\ call' = [op |-> "startup"]
     /\ UNCHANGED << perm, ui >>

StartedAdd == call.op = "startup" /\ AddOne
StartedRemove == call.op = "startup" /\ RemoveOne
StartedGo == call.op = "startup" /\ GoAny

InitStartup ==
  /\ file \in { NoFile, [kind |-> "garbage"], JsonFile(EmptyConfig) }
  /\ perm \in SUBSET {"r", "w"}
  /\ out = <<>>
  /\ call = NoCall
  /\ m = NoModel
  /\ lines = 0
  /\ crashed = FALSE
  /\ scans = 0
  /\ tmp = NoFile

NextStartup ==
  \/ Startup
  \/ StartedAdd
  \/ StartedRemove
  \/ StartedGo
  \/ Corrupt
  \/ Unlink
  \/ Chmod

SpecStartup == InitStartup /\ [][NextStartup]_vars

\* C29: the InitConfig that starts an invocation writes the file only
\* when there is none, and then writes the empty project sequence; an
\* existing file, parsable or not, is left as it is, so the projects
\* persisted before the start-up are the projects persisted after it.
C29_InitConfigKeepsExisting ==
  [][call'.op = "startup"
       => /\ file.kind # "absent" => file' = file
          /\ file.kind = "absent" => file' \in { file, JsonFile(EmptyConfig) }
          /\ Persisted(file') = Persisted(file)]_vars

\* An invocation has just started over a config that holds projects.
C29_Witness ==
  /\ call.op = "startup"
  /\ Persisted(file) # <<>>

\* ------------------------------------------------------------------------
\* Properties of the session's cached and derived fields
\* ------------------------------------------------------------------------
\* C31: whenever the ActionView is shown with HealthScanned set, the
\* cached HealthStatus is the scan of the selected project's path, also
\* when the project selected before was deleted from its ActionView.
C31_CachedHealthIsOfSelected ==
  (m.ShowActions /\ ~m.ShowForm /\ m.SelectedItem # Nil /\ m.HealthScanned)
    => m.HealthStatus = ScanOf(m.SelectedItem.Path)

\* The elements of a sequence.
Range(s) == { s[i] : i \in DOMAIN s }

\* C32: after every handled event, CategoryItems holds exactly the
\* distinct categories of the current ProjectItems, each once and each
\* with the number of projects of that category, also after a project is
\* added through the form or deleted from the ActionView.
C32_CategoryItemsAgree ==
  ~m.Quitting =>
    /\ Range(m.CategoryItems) = Range(CategoryItemsOf(m.ProjectItems))
    /\ Len(m.CategoryItems) = Len(CategoryItemsOf(m.ProjectItems))

\* ------------------------------------------------------------------------
\* Properties of mutating a config file that cannot be loaded
\* ------------------------------------------------------------------------
\* The config file exists but LoadConfig cannot read or parse it.
Unloadable == file.kind # "absent" /\ (file.kind = "garbage" \/ "r" \notin perm)

\* The project AddProject stores for the arguments of the call.
StoredBy(c) == Project(c.name, Abs(ExpandTilde(c.path)), c.category)

NotFound(name) == [msg |-> "Project not found", name |-> name]

\* C33 as stated: on an existing config file that cannot be read or
\* parsed, AddProject persists exactly the single project it was given
\* and RemoveProject reports not-found and writes nothing.
C33_AddOverwritesUnloadableAsStated ==
  [][Unloadable =>
       /\ call'.op = "add" => file' = JsonFile(<< StoredBy(call') >>)
       /\ call'.op = "remove"
            => file' = file /\ LastMsg(out') = NotFound(call'.name)
    ]_vars

\* C33, amended: on an existing config file that cannot be read or parsed,
\* AddProject persists exactly the single project it was given when the
\* file can be written, and otherwise reports the write error and leaves
\* the file as it is; RemoveProject reports not-found and writes nothing.
C33_AddOverwritesUnloadable ==
  [][Unloadable =>
       /\ (call'.op = "add" /\ "w" \in perm)
            => file' = JsonFile(<< StoredBy(call') >>)
       /\ (call'.op = "add" /\ "w" \notin perm)
            => /\ file' = file
               /\ \E i \in DOMAIN out' :
                    out'[i] = [msg |-> "Error writing config file"]
       /\ call'.op = "remove"
            => file' = file /\ LastMsg(out') = NotFound(call'.name)
    ]_vars

\* An add has replaced an unparsable file by the config of its one
\* project.
C33_Witness ==
  /\ call.op = "add"
  /\ out[1] = [msg |-> "Error parsing config file"]
  /\ file = JsonFile(<< StoredBy(call) >>)

\* ------------------------------------------------------------------------
\* A session over names that differ in case, with every key that changes
\* the project list
\* ------------------------------------------------------------------------
SortConfig ==
  << Project(demo, homeCodeDemo, work),
     Project(<< "b" >>, Cwd \o << "/", "b" >>, <<>>),
     Project(Demo, cwdX, work) >>

InitSort ==
  /\ file = JsonFile(SortConfig)
  /\ perm = {"r", "w"}
  /\ out = <<>>
  /\ call = NoCall
  /\ m \in InitialModel(file, perm)
  /\ lines = 0
  /\ crashed = FALSE
  /\ scans = 0
  /\ tmp = NoFile

\* A character typed into the name or the path field while it is empty:
\* the two fields a submission requires.
FormTypeRequired ==
  /\ InForm
  /\ m.FormFocused < NumInputs - 1
  /\ m.FormInputs[m.FormFocused + 1] = <<>>
  /\ \E u \in TypedUnits :
       Step([m EXCEPT !.FormInputs[m.FormFocused + 1] = Append(@, u)],
            lines)
  /\ out' = <<>>
  /\ UNCHANGED << file, perm >>

NextSort ==
  \/ ListSort \/ ListUp \/ ListDown \/ ListToggleView \/ ListSelect
  \/ ListAdd \/ ListDelete \/ FormEnter \/ FormTypeRequired
  \/ ActBack \/ ActDelete

SpecSort == InitSort /\ [][NextSort]_vars

\* C34: SortOrder starts as asc and is always asc or desc; after every
\* event ProjectItems, and in projects mode the displayed list, are
\* ordered by name (byte-wise, so case-sensitive) in the direction of
\* SortOrder; SortOrder changes only by the sort key in projects mode, and
\* the sort key in categories mode changes nothing.
C34_SortOrderKept ==
  /\ m.SortOrder = "asc"
  /\ [](/\ m.SortOrder \in { "asc", "desc" }
        /\ Ordered(m.ProjectItems, m.SortOrder)
        /\ m.ViewMode = "projects" => Ordered(m.List.items, m.SortOrder)
        /\ m.ViewMode # "projects" => SortKey(m) = { m })
  /\ [][m'.SortOrder # m.SortOrder
          => /\ InList /\ ~Filtering
             /\ m.ViewMode = "projects"
             /\ m' \in SortKey(m)]_vars

\* The list of a category is shown in descending order with the upper-case
\* name after the lower-case one.
C34_Witness ==
  /\ m.SortOrder = "desc"
  /\ m.ViewMode = "projects"
  /\ m.SelectedCategory = work
  /\ Len(m.List.items) = 2
  /\ m.List.items[1].Name = demo
  /\ m.List.items[2].Name = Demo

\* The handlers Update dispatches a key of the running session to.
HandlersFor(mm) ==
  { h \in { "form", "actions", "list" } :
      \/ h = "form" /\ mm.ShowForm
      \/ h = "actions" /\ ~mm.ShowForm /\ mm.ShowActions
      \/ h = "list" /\ ~mm.ShowForm /\ ~mm.ShowActions }

\* C35: ShowForm and ShowActions are never both set, ShowActions implies
\* a selected item, and a key goes to exactly one of the three handlers;
\* the form is opened, and a project is deleted by the list handler, only
\* while ViewMode is projects.
C35_ViewStatesExclusive ==
  /\ [](/\ ~(m.ShowForm /\ m.ShowActions)
        /\ m.ShowActions => m.SelectedItem # Nil
        /\ Cardinality(HandlersFor(m)) = 1)
  /\ [][/\ (~m.ShowForm /\ m'.ShowForm)
             => (InList /\ m.ViewMode = "projects")
        /\ (InList /\ file' # file) => m.ViewMode = "projects"
       ]_vars

\* The ActionView of a project is open after another project was deleted.
C35_Witness ==
  /\ m.ShowActions
  /\ ~m.ShowForm
  /\ m.SelectedItem # Nil
  /\ Len(Persisted(file)) < Len(SortConfig)

\* C36: with the session the only writer of the config, ProjectItems has
\* exactly the names of the persisted config after every event, in
\* particular after a form submit and after a delete; a project deleted
\* by an event is not in the list displayed after it; and a delete in the
\* ActionView leaves the ListView showing.
C36_ItemsFollowConfig ==
  /\ [](/\ NamesIn(m.ProjectItems) = NamesIn(Persisted(file))
        /\ Len(m.ProjectItems) = Len(Persisted(file)))
  /\ [][/\ \A n \in NamesIn(Persisted(file)) \ NamesIn(Persisted(file')) :
             n \notin NamesIn(m'.List.items)
        /\ (InActions /\ file' # file)
             => (~m'.ShowActions /\ ~m'.ShowForm /\ ~m'.Quitting)
       ]_vars

\* A project was deleted and another added through the form.
C36_Witness ==
  /\ << "a" >> \in NamesIn(m.ProjectItems)
  /\ NamesIn(Persisted(file)) # NamesIn(SortConfig) \cup { << "a" >> }
  /\ ~m.ShowForm
  /\ ~m.ShowActions

\* ------------------------------------------------------------------------
\* Concurrent invocations over any name the command line can carry
\* ------------------------------------------------------------------------
\* The commands of the race and those on a name that is not valid UTF-8.
AnyCommands ==
  Commands
  \cup { [op |-> "add", name |-> << XFF >>, path |-> tildeCodeDemo,
          category |-> work],
         [op |-> "remove", name |-> << XFF >>] }

InitRaceAny ==
  /\ file \in StartFiles
  /\ perm = {"r", "w"}
  /\ out = <<>>
  /\ call \in { [op |-> "race", last |-> 0,
                 procs |-> [p \in Procs |->
                              [cmd |-> cmds[p], pc |-> "start",
                               config |-> EmptyConfig, before |-> EmptyConfig]]]
                : cmds \in [Procs -> AnyCommands] }
  /\ m = NoModel
  /\ lines = 0
  /\ crashed = FALSE
  /\ scans = 0
  /\ tmp = NoFile

SpecRaceAny == InitRaceAny /\ [][NextRace]_vars

\* C37: whatever the interleaving of the load and save steps of the add
\* and remove invocations, started on a config with unique names, every
\* config persisted has pairwise distinct project names.
C37_NamesUniqueUnderRace ==
  Racing => UniqueNames(Persisted(file))

\* ------------------------------------------------------------------------
\* Properties of scanDependencies on directories it cannot learn from
\* ------------------------------------------------------------------------
ZeroCounts(status) ==
  /\ status.TotalDeps = 0
  /\ status.OutdatedDeps = 0
  /\ status.Vulnerabilities = 0

\* C38: for a directory with none of the recognised manifest files
\* scanDependencies reports no package manager and zero counts, and it
\* reports zero counts when the manifest it detected cannot be read.
C38_NoManifestZeroCounts ==
  (call.op = "scanDependencies" /\ call.n >= 1) =>
    LET status == out[1]
        manifests == { packageFiles[i].file : i \in DOMAIN packageFiles }
    IN /\ DOMAIN call.dir \cap manifests = {}
            => (status.PackageManager = NoManager /\ ZeroCounts(status))
       /\ (/\ status.PackageManager # NoManager
           /\ ~call.dir[ManifestOf(status.PackageManager)].readable)
            => ZeroCounts(status)

====
